---------------------------- MODULE Spec2Model ----------------------------
(***************************************************************************)
(* Model of the download pipeline of the virtual observatory               *)
(* (src/src/observatory.py): VirtualObservatory.check_and_fetch_source run *)
(* by several fetch threads against one database, one on-disk file store   *)
(* and the module-level lock.                                              *)
(*                                                                         *)
(* One observatory (self.name) and one data type (pars.data_types =        *)
(* ["photometry"]) are modelled, so the loop over data types runs once.    *)
(* A thread's pc names the statement it is executing.                      *)
(*                                                                         *)
(* The classes Source, RawPhotometry and Session are imported by           *)
(* observatory.py from modules that are not part of the sources at hand    *)
(* (src.source, src.dataset, src.database).  Their operations are the      *)
(* definitions get_raw_data, remove_raw_data, check_file_exists,           *)
(* LoadOutcome, SaveToDisk, KeysAfterDelete, FilesAfterDelete and          *)
(* CommitFails below.                                                      *)
(*                                                                         *)
(* SpecBatch is a run of download_all_sources over the ranges of a         *)
(* catalog, SpecSameName lets two threads work on rows of one name, and    *)
(* SpecPars is a Parameters object (src/src/parameters.py) under           *)
(* assignments, verify, read, load and update.                             *)
(***************************************************************************)
EXTENDS Integers, Sequences, FiniteSets, TLC

\* ------------------------------------------------------------------ bounds
\* number of check_and_fetch_source calls in one behaviour
MaxCalls == 2

\* the fetch threads
Threads == {"t1", "t2"}
NoThread == "none"

\* names of the catalog rows; both rows lie in the same RA bin
Names == {"a", "b"}

\* values a download parameter can take (pars[k] or fetch_args[k])
ParVals == {1, 2}

\* number of rows of the catalog (len(self.catalog))
CatLen == 4

\* largest pars.download_batch_size of a run
MaxBatch == 1

\* the threads of a pool, in the order the rows of a range are submitted
Pool == <<"t1", "t2">>

\* values of pars.num_threads_download (0 is the default)
NumThreads == 0..Len(Pool)

\* ---------------------------------------------------------------- records
\* filename that save() gives the data of a source: it is made of ra_deg
\* (and ra_minute, ra_second), so the rows of one RA bin share a file
FileOf(name) == "RA000_photometry.h5"

\* raw_data is None
None == [id |-> -1, source_name |-> "none", dp |-> 0, source |-> "none"]

\* a RawPhotometry object made without line 646
RawDataUntagged(id, name, dp, source) ==
    [id |-> id, source_name |-> name, dp |-> 0, source |-> source]

\* a RawPhotometry object.  dp = 0: altdata has no usable "download_pars"
RawData(id, name, dp, source) ==
    [id |-> id, source_name |-> name, dp |-> dp, source |-> source]

\* the raw data committed by an earlier run for source `name`.
\* dp = 0 is a record made by populate_sources / commit_source, which
\* sets no download_pars
Legacy(name, dp) == RawData(0, name, dp, name)

VARIABLES
    dbSources,  \* committed Source rows: set of [name, id]
    dbRaw,      \* committed RawData rows: set of RawData records
    files,      \* names of the files that exist in the file store
    keys,       \* keys (one table each) present inside the files
    lock,       \* holder of the module-level lock, or NoThread
    ncalls,     \* number of calls started so far
    pc,         \* per thread: the statement it is executing
    check_download_pars,  \* pars.check_download_pars
    call,       \* per thread: the arguments of its call
    source,     \* per thread: its Source object
    raw_data,   \* per thread: the local raw_data
    new_data,   \* per thread: the list new_data
    pending,    \* per thread: rows its session has flushed a DELETE for
    err,        \* per thread: the exception its call raised
    hist,       \* per thread: what the call has done so far
    okSaves,    \* per name: calls with save=True that returned (max 2)
    collectErr, \* download_all_sources raised "Cannot find data ..."
    batch,      \* the arguments and pars of a download_all_sources run
    loop,       \* its position: [pc, i, num_loaded, err], and the largest
                \* index it has asked of catalog.get_row (asked)
    sources,    \* self.sources: catalog indices of the sources kept
    datasets,   \* self.datasets: catalog indices of the datasets kept
    row,        \* per thread: the catalog index it was submitted for
    started,    \* per catalog index: runs of check_and_fetch_source
    attrs,      \* a Parameters object: the value of each attribute
    required_pars,  \* its required_pars
    raised,     \* the exception its last method call raised
    last,       \* its last method call: [name, d]
    nops,       \* number of method calls and assignments so far
    nobj,       \* number of objects made so far
    \* a Histogram object (histogram.py)
    pars,       \* its pars: dtype, score_coords, source_coords, obs_coords
    data,       \* its data: NoData, or the Dataset of initialize_data
    hlast,      \* its last method call: [name, args]
    hraised,    \* the exception of that call, or "none"
    result,     \* the value that call returned
    \* an observatory and the objects of one call of a reduction
    observatory,   \* the observatory: its class and its pars.reducer
    dataset,       \* the raw dataset at hand
    rsource,       \* the Source object given to the call, as the call left it
    rlast,         \* the call: [name, args]
    rraised,       \* the exception of the call, or "none"
    new_datasets,  \* the list the call returned
    \* a run of populate_sources
    source_ids,    \* the set source_ids
    committed,     \* per identifier: the Source rows the database holds
    ncommits,      \* number of calls of commit_source so far
    clast          \* the last call: [cat_id, len, raised]

workerVars == <<dbSources, dbRaw, files, keys, lock, ncalls, pc,
                check_download_pars, call, source, raw_data, new_data,
                pending, err, hist, okSaves, collectErr>>

batchVars == <<batch, loop, sources, datasets, row, started>>

parsVars == <<attrs, required_pars, raised, last, nops, nobj>>

histVars == <<pars, data, hlast, hraised, result>>

reduceVars == <<observatory, dataset, rsource, rlast, rraised, new_datasets>>

commitVars == <<source_ids, committed, ncommits, clast>>

otherVars == <<batchVars, parsVars, histVars, reduceVars, commitVars>>

\* the variables of the objects download_all_sources does not touch
objectVars == <<parsVars, histVars, reduceVars, commitVars>>

vars == <<workerVars, batchVars, parsVars, histVars, reduceVars, commitVars>>

shared == <<dbSources, dbRaw, files, keys>>

NoCall == [name |-> "none", save |-> FALSE, dp |-> 0, id |-> 0]
NoSource == [name |-> "none", id |-> 0, isNew |-> FALSE, raw |-> <<>>]
NoHist == [fetches |-> 0, found |-> None, load |-> "none", wrote |-> FALSE]

\* ------------------------------------------------ the collaborators' part
\* Source.get_raw_data(obs, data_type): the raw data of this observatory
\* on the source, or None
get_raw_data(src) == IF Len(src.raw) = 0 THEN None ELSE src.raw[1]

\* Source.remove_raw_data(obs, data_type, session): the record leaves the
\* source's collection (the session's DELETE is in `pending`)
remove_raw_data(src) == [src EXCEPT !.raw = <<>>]

\* RawData.check_file_exists()
check_file_exists(rec, fs) == FileOf(rec.source_name) \in fs

\* RawData.load(): "ok", "stale" (KeyError: No object named ... in the
\* file) or "error" (any other exception: the file is gone)
LoadOutcome(rec, fs, ks) ==
    IF ~check_file_exists(rec, fs) THEN "error"
    ELSE IF rec.source_name \in ks THEN "ok" ELSE "stale"

\* RawData.delete_data_from_disk(): the key is removed from its file, and
\* the file is removed when no key is left in it
KeysAfterDelete(recs, ks) == ks \ {r.source_name : r \in recs}

FilesAfterDelete(recs, fs, ks) ==
    {f \in fs : \/ \A r \in recs : FileOf(r.source_name) # f
                \/ \E k \in KeysAfterDelete(recs, ks) : FileOf(k) = f}

\* Session.commit() refuses: a new Source whose name is taken (the name is
\* unique), or a new RawData whose file does not exist
CommitFails(src, recs, srcs, fs, ks) ==
    \/ src.isNew /\ \E s \in srcs : s.name = src.name
    \/ \E r \in recs : ~check_file_exists(r, fs)

RowsOf(name) == {r \in dbRaw : r.source = name}

\* ------------------------------------------------------------- Parameters
\* number of method calls and assignments on the Parameters object
MaxOps == 2

\* attribute names.  "save" is also the name of a method of the class.
Keys == {"p", "q", "save"}
ClassAttrs == {"save"}

\* the keys a dictionary given to read / update, or a YAML file, can have
InKeys == {"p", "q"}

\* A value: its type, the identity of the object (0 where it does not
\* matter) and its entries as pairs: key and value of a dict, the element
\* twice for a set, index and element for a list.
Unset == [kind |-> "unset", id |-> 0, items |-> {}]
NoneVal == [kind |-> "none", id |-> 0, items |-> {}]
Method == [kind |-> "method", id |-> 0, items |-> {}]
Str(x) == [kind |-> "str", id |-> 0, items |-> {<<"", x>>}]
Dict(prs) == [kind |-> "dict", id |-> 0, items |-> prs]
Set(es) == [kind |-> "set", id |-> 0, items |-> {<<e, e>> : e \in es}]
List(seq) ==
    [kind |-> "list", id |-> 0,
     items |-> {<<ToString(j - 1), seq[j]>> : j \in 1..Len(seq)}]

\* the values given to the object
Lit ==
    {NoneVal, Str("guy"),
     Dict({<<"x", "1">>, <<"y", "1">>}), Dict({<<"x", "2">>, <<"z", "2">>}),
     Set({"1"}), Set({"2"}), List(<<"2", "3">>)}

\* a dictionary; a key that maps to Unset is not in it
Dicts == [InKeys -> Lit \cup {Unset}]
NoDict == [k \in InKeys |-> Unset]
KeysOf(d) == {k \in InKeys : d[k] # Unset}

\* the sets of required parameters a Parameters object is made with
Required == {{}, {"p"}, {"p", "q"}, {"q", "save"}}

\* the object a value is once the program holds it
Obj(v, id) == IF v.kind \in {"dict", "set", "list"} THEN [v EXCEPT !.id = id]
              ELSE v

\* hasattr(self, k), getattr(self, k), setattr(self, k, v)
hasattr(a, k) == a[k] # Unset \/ k \in ClassAttrs
getattr(a, k) == IF a[k] # Unset THEN a[k] ELSE Method
setattr(a, k, v) == [a EXCEPT ![k] = v]

\* dict.update(v) and set.update(v) on the entries
dict_update(old, new) ==
    {pr \in old : ~\E nw \in new : nw[1] = pr[1]} \cup new
set_update(old, new) == old \cup {<<pr[2], pr[2]>> : pr \in new}

\* no Parameters object is in use
NoPars ==
    /\ attrs = [k \in Keys |-> Unset]
    /\ required_pars = {}
    /\ raised = "none"
    /\ last = [name |-> "none", d |-> NoDict]
    /\ nops = 0
    /\ nobj = 0

\* ------------------------------------------------- the Histogram's values
\* the largest stop and the largest step of a fixed axis
MaxStop == 3
MaxStep == 2

\* a tuple of coordinate specs: its numbers, then possibly a units string
Specs(items, tail) == [tuple |-> TRUE, items |-> items, tail |-> tail]

\* the specs of an axis: every (start, stop, step); then (), (first, step)
\* and ("mag",); then (0, 2, 1, "mag"); then the specs create_coordinate
\* refuses: (1,) and the list [0, 2, 1]
AxisSpecs ==
    {Specs(<<a, b, c>>, <<>>) : a \in 0..1, b \in 0..MaxStop, c \in 1..MaxStep}
        \cup {Specs(<<>>, <<>>), Specs(<<1, 1>>, <<>>), Specs(<<>>, <<"mag">>)}
        \cup {Specs(<<0, 2, 1>>, <<"mag">>)}
        \cup {Specs(<<1>>, <<>>),
              [tuple |-> FALSE, items |-> <<0, 2, 1>>, tail |-> <<>>]}

FewSpecs == {Specs(<<>>, <<>>), Specs(<<0, 2, 1>>, <<>>), Specs(<<1, 1, 1>>, <<>>)}

\* a dict is the sequence of its items, in insertion order
Item(k, v) == [k |-> k, v |-> v]

\* the parameters of a Histogram: a dtype and the three dicts of specs.  One
\* choice of source_coords gives a source coordinate the name "snr" of a
\* score coordinate.
HistPars ==
    [dtype : {"uint16", "uint32", "float64"},
     score_coords :
        {<<>>} \cup {<<Item("snr", x)>> : x \in AxisSpecs}
               \cup {<<Item("snr", x), Item("dmag", y)>> :
                        x \in FewSpecs, y \in FewSpecs},
     source_coords :
        {<<>>, <<Item("mag", Specs(<<0, MaxStop, 2>>, <<>>))>>,
         <<Item("mag", Specs(<<0, 1, 1>>, <<>>))>>,
         <<Item("snr", Specs(<<0, 2, 1>>, <<>>))>>},
     obs_coords :
        {<<>>, <<Item("exptime", Specs(<<1, 1>>, <<>>))>>,
         <<Item("exptime", Specs(<<1, 1>>, <<>>)),
           Item("filt", Specs(<<>>, <<>>))>>}]

\* self.data = None
NoData == [built |-> FALSE, coords |-> <<>>, data_vars |-> <<>>]

\* xr.Dataset(data_vars, coords=coords)
Dataset(data_vars, coords) ==
    [built |-> TRUE, coords |-> coords, data_vars |-> data_vars]

NoArgs == [score |-> "", value |-> 0, units |-> "", dyn_coord_size |-> 0,
           dyn_score_size |-> 0]
NoResult == [total_size |-> -1, per |-> 1, data |-> NoData]

\* no Histogram is in use
NoHistogram ==
    /\ pars = [dtype |-> "uint32", score_coords |-> <<>>,
               source_coords |-> <<>>, obs_coords |-> <<>>]
    /\ data = NoData
    /\ hlast = [name |-> "none", args |-> NoArgs]
    /\ hraised = "none"
    /\ result = NoResult

\* ------------------------------------------------- the reduction's values
\* the largest number of rows of a raw table
MaxRows == 2

\* source.mag is None, and mag_range is None
NoMag == -1
NoRange == -1

\* the rows of a DataFrame, in order; idx is the row label.  A table with
\* no flag column has flag 0 in every row.
RowVals(has_flag) ==
    [idx : {0}, mjd : {1, 2}, mag : {17, 18, 20}, filter : {"g", "r"},
     flag : IF has_flag THEN {0, 1} ELSE {0}]

\* pd.DataFrame(...): the rows are labelled 0, 1, ...
DataFrame(rows) == [i \in 1..Len(rows) |-> [rows[i] EXCEPT !.idx = i - 1]]

Tables(has_flag) ==
    UNION {{DataFrame(rows) : rows \in [1..n -> RowVals(has_flag)]} : n \in 0..MaxRows}

\* a raw dataset: class, type, payload and whether colmap has "flag"
RawPhotometry(table, has_flag) ==
    [class |-> "RawPhotometry", type |-> "photometry", tabular |-> TRUE,
     data |-> table, has_flag |-> has_flag, id |-> 1]

\* the datasets at hand: photometry tables, a RawPhotometry whose payload
\* is not a DataFrame, and a dataset of images
Datasets ==
    {RawPhotometry(tb, TRUE) : tb \in Tables(TRUE)}
        \cup {RawPhotometry(tb, FALSE) : tb \in Tables(FALSE)}
        \cup {[RawPhotometry(<<>>, FALSE) EXCEPT !.tabular = FALSE],
              [RawPhotometry(<<>>, FALSE) EXCEPT !.class = "RawImages",
                                                  !.type = "images"]}

\* the tables of at most one row
FewDatasets == {ds \in Datasets : Len(ds.data) <= 1}

\* no dataset: get_raw_data found none
NoDataset == [class |-> "NoneType", type |-> "none", tabular |-> FALSE,
              data |-> <<>>, has_flag |-> FALSE, id |-> 0]

\* keyword arguments: a key that is not given is <<>>
Kwargs(mag_range, drop_bad) == [mag_range |-> mag_range, drop_bad |-> drop_bad]

\* the observatories: the base class, the demo class, the demo class with a
\* dict in pars.reducer, and a demo object whose attribute reduce_images is
\* not callable
Observatories ==
    {[class |-> "VirtualObservatory", reducer |-> <<>>, not_callable |-> {}],
     [class |-> "VirtualDemoObs", reducer |-> <<>>, not_callable |-> {}],
     [class |-> "VirtualDemoObs", reducer |-> <<Kwargs(<<>>, <<TRUE>>)>>,
      not_callable |-> {}],
     [class |-> "VirtualDemoObs", reducer |-> <<>>,
      not_callable |-> {<<"images">>}]}

\* what is given as source: a Source object, a dataset, None or something
\* else
Source(mag, raw) ==
    [class |-> "Source", name |-> "a", mag |-> mag, raw |-> raw,
     reduced |-> [ty \in {"photometry", "images"} |-> <<>>]]
NoneSource == [class |-> "NoneType", name |-> "none", mag |-> NoMag,
               raw |-> NoDataset, reduced |-> [ty \in {"photometry", "images"} |-> <<>>]]

NoCallArgs == [source |-> NoneSource, data_type |-> "None",
               output_type |-> "None", kwargs |-> Kwargs(<<>>, <<>>)]

\* no reduction is in use
NoReduction ==
    /\ observatory = [class |-> "VirtualObservatory", reducer |-> <<>>,
                      not_callable |-> {}]
    /\ dataset = NoDataset
    /\ rsource = NoneSource
    /\ rlast = [name |-> "none", args |-> NoCallArgs]
    /\ rraised = "none"
    /\ new_datasets = <<>>

\* --------------------------------------------- populate_sources' values
\* number of calls of commit_source in one run
MaxCommits == 3

\* the identifiers found in the files: two rows of the catalog, and one
\* that the catalog does not have
CatIds == {0, 1, CatLen}

NoCommit == [cat_id |-> -1, len |-> 0, raised |-> "none"]

\* populate_sources is not running
NoPopulate ==
    /\ source_ids = {}
    /\ committed = [c \in CatIds |-> 0]
    /\ ncommits = 0
    /\ clast = NoCommit

\* ------------------------------------------------------------------- Init
\* The database and the file store outlive the program: each source is
\* absent, or known without data of this observatory, or was saved with its
\* data by an earlier run.
InitChoice ==
    [a : {"absent", "source", "saved", "populated"}, b : {"absent", "saved"}]

\* the database and the file store an earlier run has left
Store(st) ==
    /\ dbSources = {[name |-> n, id |-> 0] : n \in {m \in Names : st[m] # "absent"}}
    /\ dbRaw = {Legacy(n, 1) : n \in {m \in Names : st[m] = "saved"}}
               \cup {Legacy(n, 0) : n \in {m \in Names : st[m] = "populated"}}
    /\ keys = {n \in Names : st[n] \in {"saved", "populated"}}
    /\ files = {FileOf(n) : n \in {m \in Names : st[m] \in {"saved", "populated"}}}

\* no call is running
Idle ==
    /\ lock = NoThread
    /\ ncalls = 0
    /\ pc = [t \in Threads |-> "idle"]
    /\ call = [t \in Threads |-> NoCall]
    /\ source = [t \in Threads |-> NoSource]
    /\ raw_data = [t \in Threads |-> None]
    /\ new_data = [t \in Threads |-> <<>>]
    /\ pending = [t \in Threads |-> {}]
    /\ err = [t \in Threads |-> "none"]
    /\ hist = [t \in Threads |-> NoHist]
    /\ okSaves = [n \in Names |-> 0]
    /\ collectErr = FALSE

NoBatch == [start |-> 0, stop |-> 0, save |-> FALSE, dp |-> 0,
            num_threads_download |-> 0, download_batch_size |-> 0]
NoLoop == [pc |-> "none", i |-> 0, num_loaded |-> 0, err |-> "none",
           asked |-> -1]

\* download_all_sources is not running
NoRun ==
    /\ batch = NoBatch
    /\ loop = NoLoop
    /\ sources = <<>>
    /\ datasets = <<>>
    /\ row = [t \in Threads |-> -1]
    /\ started = [r \in 0..(CatLen - 1) |-> 0]

Init ==
    \E st \in InitChoice :
        /\ check_download_pars \in BOOLEAN
        /\ Store(st)
        /\ Idle
        /\ NoRun
        /\ NoPars
        /\ NoHistogram
        /\ NoReduction
        /\ NoPopulate

\* ---------------------------------------------------------------- helpers
Range(seq) == {seq[i] : i \in 1..Len(seq)}

\* the rows of a relationship collection, oldest first
RECURSIVE RowsToSeq(_)
RowsToSeq(S) ==
    IF S = {} THEN <<>>
    ELSE LET r == CHOOSE x \in S : \A y \in S : x.id <= y.id
         IN <<r>> \o RowsToSeq(S \ {r})

\* a call is running on thread u (it has neither returned nor raised)
Running(u) == pc[u] \notin {"idle", "returned", "raised"}

\* the exception leaves check_and_fetch_source: `with Session()` closes the
\* session, which discards what was flushed and not committed
Raise(t, e, next) ==
    /\ pc' = [pc EXCEPT ![t] = next]
    /\ err' = [err EXCEPT ![t] = e]
    /\ pending' = [pending EXCEPT ![t] = {}]

\* Persist with the save argument ignored
PersistIgnoresSave(t) ==
    \E save_ra_minutes, save_ra_seconds \in BOOLEAN :
        IF save_ra_seconds /\ ~save_ra_minutes
        THEN Raise(t, "TypeError", "raised")
        ELSE /\ pc' = [pc EXCEPT ![t] = "acquire_save"]
             /\ pending' = pending
             /\ UNCHANGED err

\* lines 676-694 and 720: without save the source is returned; with save
\* the RA fields are computed (ra_minute / 60 with ra_minute = None is a
\* TypeError) and session.add(source)
Persist(t) ==
    IF ~call[t].save
    THEN /\ pc' = [pc EXCEPT ![t] = "returned"]
         /\ pending' = [pending EXCEPT ![t] = {}]
         /\ UNCHANGED err
    ELSE \E save_ra_minutes, save_ra_seconds \in BOOLEAN :
           IF save_ra_seconds /\ ~save_ra_minutes
           THEN Raise(t, "TypeError", "raised")
           ELSE /\ pc' = [pc EXCEPT ![t] = "acquire_save"]
                /\ pending' = pending
                /\ UNCHANGED err

\* --------------------------------------------------------------- actions
\* lines 557-579: download_pars, the Session, the Source of the catalog
\* row (found by name, or made from the row), new_data = [], raw_data.
Begin(t, n, sv, dp) ==
    /\ LET known == \E s \in dbSources : s.name = n
           src == IF known
                  THEN [name |-> n,
                        id |-> (CHOOSE s \in dbSources : s.name = n).id,
                        isNew |-> FALSE,
                        raw |-> RowsToSeq(RowsOf(n))]
                  ELSE [name |-> n, id |-> ncalls + 1, isNew |-> TRUE,
                        raw |-> <<>>]
       IN /\ call' = [call EXCEPT ![t] = [name |-> n, save |-> sv,
                                          dp |-> dp, id |-> ncalls + 1]]
          /\ source' = [source EXCEPT ![t] = src]
          /\ raw_data' = [raw_data EXCEPT ![t] = get_raw_data(src)]
          /\ hist' = [hist EXCEPT ![t] =
                [NoHist EXCEPT !.found = get_raw_data(src)]]
    /\ ncalls' = ncalls + 1
    /\ pc' = [pc EXCEPT ![t] = "check_file"]
    /\ new_data' = [new_data EXCEPT ![t] = <<>>]
    /\ UNCHANGED <<shared, lock, check_download_pars, pending, err, okSaves,
                   collectErr>>

\* a call of check_and_fetch_source for some catalog row.  The threads of
\* one range work on different catalog rows (lines 493-505), and the rows
\* of one range have different names.
Call(t) ==
    /\ pc[t] = "idle"
    /\ ncalls < MaxCalls
    /\ \E n \in Names, sv \in BOOLEAN, dp \in ParVals :
        /\ \A u \in Threads \ {t} : Running(u) => call[u].name # n
        /\ Begin(t, n, sv, dp)

\* CheckFile as the commented-out lines 582-583 have it: the record
\* whose file is missing is deleted and fetched again
CheckFileRefetches(t) ==
    /\ pc[t] = "check_file"
    /\ IF raw_data[t] # None /\ ~check_file_exists(raw_data[t], files)
       THEN /\ pending' = [pending EXCEPT ![t] = @ \cup {raw_data[t]}]
            /\ raw_data' = [raw_data EXCEPT ![t] = None]
            /\ source' = [source EXCEPT ![t] = remove_raw_data(@)]
            /\ pc' = [pc EXCEPT ![t] = "fetch"]
       ELSE /\ pc' = [pc EXCEPT ![t] =
                 IF raw_data[t] # None THEN "acquire_load" ELSE "fetch"]
            /\ UNCHANGED <<pending, raw_data, source>>
    /\ UNCHANGED <<shared, lock, ncalls, check_download_pars, call, new_data,
                   err, hist, okSaves, collectErr>>

\* lines 581-590 (and 609, 635 when raw_data is None): a record whose file
\* is missing is an error
CheckFile(t) ==
    /\ pc[t] = "check_file"
    /\ IF raw_data[t] # None /\ ~check_file_exists(raw_data[t], files)
       THEN Raise(t, "RuntimeError", "raised")
       ELSE /\ pc' = [pc EXCEPT ![t] =
                 IF raw_data[t] # None THEN "acquire_load" ELSE "fetch"]
            /\ UNCHANGED <<err, pending>>
    /\ UNCHANGED <<shared, lock, ncalls, check_download_pars, call, source,
                   raw_data, new_data, hist, okSaves, collectErr>>

\* line 591: lock.acquire()
AcquireLoad(t) ==
    /\ pc[t] = "acquire_load"
    /\ lock = NoThread
    /\ lock' = t
    /\ pc' = [pc EXCEPT ![t] = "load"]
    /\ UNCHANGED <<shared, ncalls, check_download_pars, call, source, raw_data,
                   new_data, pending, err, hist, okSaves, collectErr>>

\* lines 609-632: with check_download_pars, a record without download_pars
\* or with other download_pars than the current ones is stale
ParsDiffer(rec, c) == rec.dp = 0 \/ rec.dp # c.dp

\* StalePars with pars.check_download_pars ignored
StaleParsUnchecked(rec, chk, c) == rec # None /\ ParsDiffer(rec, c)

StalePars(rec, chk, c) == rec # None /\ chk /\ ParsDiffer(rec, c)

\* Discard without the session: the row stays in the database
DiscardKeepsRow(t) ==
    /\ source' = [source EXCEPT ![t] = remove_raw_data(@)]
    /\ pending' = pending
    /\ raw_data' = [raw_data EXCEPT ![t] = None]
    /\ pc' = [pc EXCEPT ![t] = "fetch"]
    /\ UNCHANGED err

\* Discard that leaves the record on the source
DiscardKeepsRecord(t) ==
    /\ source' = source
    /\ pending' = [pending EXCEPT ![t] = @ \cup {raw_data[t]}]
    /\ raw_data' = [raw_data EXCEPT ![t] = None]
    /\ pc' = [pc EXCEPT ![t] = "fetch"]
    /\ UNCHANGED err

\* lines 599-603, 614-618 and 627-631: the record is removed from the
\* source, the session flushes its DELETE, raw_data = None
Discard(t) ==
    /\ source' = [source EXCEPT ![t] = remove_raw_data(@)]
    /\ pending' = [pending EXCEPT ![t] = @ \cup {raw_data[t]}]
    /\ raw_data' = [raw_data EXCEPT ![t] = None]
    /\ pc' = [pc EXCEPT ![t] = "fetch"]
    /\ UNCHANGED err

\* Attach without the test of line 660: the record is always appended
AttachAlways(src, rec) ==
    [src EXCEPT !.raw = Append(@, [rec EXCEPT !.source = src.name])]

\* Attach that appends nothing
AttachNever(src, rec) == src

\* lines 659-663: the record joins the source's collection unless the
\* collection holds data of this observatory; the relationship sets the
\* record's back-reference
Attach(src, rec) ==
    IF Len(src.raw) = 0
    THEN [src EXCEPT !.raw = Append(@, [rec EXCEPT !.source = src.name])]
    ELSE src

\* Load without the finally clause of lines 606-607: an exception that is
\* raised again leaves the lock held
LoadWithoutFinally(t) ==
    /\ pc[t] = "load"
    /\ \E out \in {LoadOutcome(raw_data[t], files, keys), "error"} :
        /\ hist' = [hist EXCEPT ![t].load = out]
        /\ lock' = IF out \in {"ok", "stale"} THEN NoThread ELSE lock
        /\ CASE out = "ok" ->
                  IF StalePars(raw_data[t], check_download_pars, call[t])
                  THEN Discard(t)
                  ELSE /\ source' = [source EXCEPT ![t] =
                             Attach(@, raw_data[t])]
                       /\ Persist(t)
                       /\ UNCHANGED raw_data
             [] out = "stale" -> Discard(t)
             [] OTHER ->
                  /\ Raise(t, "LoadError", "raised")
                  /\ UNCHANGED <<source, raw_data>>
    /\ UNCHANGED <<shared, ncalls, check_download_pars, call, new_data, okSaves,
                   collectErr>>

\* lines 592-632: raw_data.load(), which may also fail with an I/O error;
\* a KeyError "No object named" drops the record, any other exception is
\* raised; finally lock.release(); then the
\* download parameters of a loaded record are checked, and a record that
\* is kept goes on to lines 659-694
Load(t) ==
    /\ pc[t] = "load"
    /\ \E out \in {LoadOutcome(raw_data[t], files, keys), "error"} :
        /\ hist' = [hist EXCEPT ![t].load = out]
        /\ CASE out = "ok" ->
                  IF StalePars(raw_data[t], check_download_pars, call[t])
                  THEN Discard(t)
                  ELSE /\ source' = [source EXCEPT ![t] =
                             Attach(@, raw_data[t])]
                       /\ Persist(t)
                       /\ UNCHANGED raw_data
             [] out = "stale" -> Discard(t)
             [] OTHER ->
                  /\ Raise(t, "LoadError", "raised")
                  /\ UNCHANGED <<source, raw_data>>
    /\ lock' = NoThread
    /\ UNCHANGED <<shared, ncalls, check_download_pars, call, new_data, okSaves,
                   collectErr>>

\* lines 635-694: fetch_data_from_observatory (which may raise), the new
\* raw data object with altdata["download_pars"], new_data.append, the
\* record is attached to the source
Fetch(t) ==
    /\ pc[t] = "fetch"
    /\ hist' = [hist EXCEPT ![t].fetches = @ + 1]
    /\ \/ LET rec == RawData(call[t].id, call[t].name, call[t].dp, "none")
              src == Attach(source[t], rec)
              obj == IF rec.id \in {r.id : r \in Range(src.raw)}
                     THEN [rec EXCEPT !.source = src.name] ELSE rec
          IN /\ raw_data' = [raw_data EXCEPT ![t] = obj]
             /\ new_data' = [new_data EXCEPT ![t] = Append(@, obj)]
             /\ source' = [source EXCEPT ![t] = src]
             /\ Persist(t)
       \/ /\ Raise(t, "FetchError", "raised")
          /\ UNCHANGED <<raw_data, new_data, source>>
    /\ UNCHANGED <<shared, lock, ncalls, check_download_pars, call, okSaves,
                   collectErr>>

\* AcquireSave without the lock.acquire() of line 696
AcquireSaveUnlocked(t) ==
    /\ pc[t] = "acquire_save"
    /\ pc' = [pc EXCEPT ![t] = "save"]
    /\ UNCHANGED <<shared, lock, ncalls, check_download_pars, call, source,
                   raw_data, new_data, pending, err, hist, okSaves, collectErr>>

\* line 696: lock.acquire()
AcquireSave(t) ==
    /\ pc[t] = "acquire_save"
    /\ lock = NoThread
    /\ lock' = t
    /\ pc' = [pc EXCEPT ![t] = "save"]
    /\ UNCHANGED <<shared, ncalls, check_download_pars, call, source, raw_data,
                   new_data, pending, err, hist, okSaves, collectErr>>

\* RawData.save(overwrite, source_name, ra_deg, ...): the table is written
\* under the key of the source into the file of its RA bin
SaveToDisk(recs, fs, ks) ==
    [files |-> fs \cup {FileOf(r.source_name) : r \in recs},
     keys |-> ks \cup {r.source_name : r \in recs}]

\* Save without the lock.release() of line 709
SaveKeepsLock(t) ==
    /\ pc[t] = "save"
    /\ \E out \in IF new_data[t] = <<>> THEN {"ok"}
                  ELSE {"ok", "fail_before_write", "fail_after_write"} :
        LET after == SaveToDisk(Range(new_data[t]), files, keys)
            wrote == out # "fail_before_write" /\ new_data[t] # <<>>
        IN /\ files' = IF wrote THEN after.files ELSE files
           /\ keys' = IF wrote THEN after.keys ELSE keys
           /\ hist' = [hist EXCEPT ![t].wrote = wrote]
           /\ IF out = "ok"
              THEN /\ pc' = [pc EXCEPT ![t] = "commit"]
                   /\ UNCHANGED <<err, pending>>
              ELSE Raise(t, "SaveError", "cleanup")
    /\ lock' = lock
    /\ UNCHANGED <<dbSources, dbRaw, ncalls, check_download_pars, call, source,
                   raw_data, new_data, okSaves, collectErr>>

\* lines 697-709 and 712-713: data.save() of every new dataset; finally
\* lock.release(); an exception of save (before or after the write) goes
\* to the handler, which rolls the session back
Save(t) ==
    /\ pc[t] = "save"
    /\ \E out \in IF new_data[t] = <<>> THEN {"ok"}
                  ELSE {"ok", "fail_before_write", "fail_after_write"} :
        LET after == SaveToDisk(Range(new_data[t]), files, keys)
            wrote == out # "fail_before_write" /\ new_data[t] # <<>>
        IN /\ files' = IF wrote THEN after.files ELSE files
           /\ keys' = IF wrote THEN after.keys ELSE keys
           /\ hist' = [hist EXCEPT ![t].wrote = wrote]
           /\ IF out = "ok"
              THEN /\ pc' = [pc EXCEPT ![t] = "commit"]
                   /\ UNCHANGED <<err, pending>>
              ELSE Raise(t, "SaveError", "cleanup")
    /\ lock' = NoThread
    /\ UNCHANGED <<dbSources, dbRaw, ncalls, check_download_pars, call, source,
                   raw_data, new_data, okSaves, collectErr>>

\* a commit that inserts no row for the new datasets
NewRowsNone(t) == {}

\* the rows session.commit() inserts for the source
NewRows(t) == Range(source[t].raw) \cap Range(new_data[t])

\* Commit on a database that refuses nothing
CommitNeverRefused(t) ==
    /\ pc[t] = "commit"
    /\ \E dbError \in BOOLEAN :
        IF dbError
        THEN /\ Raise(t, "CommitError", "cleanup")
             /\ UNCHANGED <<dbSources, dbRaw, okSaves>>
        ELSE /\ dbSources' = IF source[t].isNew
                             THEN dbSources \cup {[name |-> source[t].name,
                                                   id |-> source[t].id]}
                             ELSE dbSources
             /\ dbRaw' = (dbRaw \ pending[t]) \cup NewRows(t)
             /\ pending' = [pending EXCEPT ![t] = {}]
             /\ pc' = [pc EXCEPT ![t] = "returned"]
             /\ okSaves' = [okSaves EXCEPT ![call[t].name] =
                   IF @ < 2 THEN @ + 1 ELSE @]
             /\ UNCHANGED err
    /\ UNCHANGED <<files, keys, lock, ncalls, check_download_pars, call, source,
                   raw_data, new_data, hist, collectErr>>

\* lines 711-713 and 720: session.commit() writes the Source (when new),
\* the flushed DELETEs and the new RawData rows, or fails and the handler
\* rolls the session back
Commit(t) ==
    /\ pc[t] = "commit"
    /\ \E dbError \in BOOLEAN :
        IF dbError \/ CommitFails(source[t], NewRows(t), dbSources, files, keys)
        THEN /\ Raise(t, "CommitError", "cleanup")
             /\ UNCHANGED <<dbSources, dbRaw, okSaves>>
        ELSE /\ dbSources' = IF source[t].isNew
                             THEN dbSources \cup {[name |-> source[t].name,
                                                   id |-> source[t].id]}
                             ELSE dbSources
             /\ dbRaw' = (dbRaw \ pending[t]) \cup NewRows(t)
             /\ pending' = [pending EXCEPT ![t] = {}]
             /\ pc' = [pc EXCEPT ![t] = "returned"]
             /\ okSaves' = [okSaves EXCEPT ![call[t].name] =
                   IF @ < 2 THEN @ + 1 ELSE @]
             /\ UNCHANGED err
    /\ UNCHANGED <<files, keys, lock, ncalls, check_download_pars, call, source,
                   raw_data, new_data, hist, collectErr>>

\* Cleanup that removes the files of the new datasets with all their tables
CleanupDeletesFile(t) ==
    /\ pc[t] = "cleanup"
    /\ LET written == IF hist[t].wrote THEN Range(new_data[t]) ELSE {}
           gone == {FileOf(r.source_name) : r \in written}
       IN /\ keys' = {k \in keys : FileOf(k) \notin gone}
          /\ files' = files \ gone
    /\ pc' = [pc EXCEPT ![t] = "raised"]
    /\ UNCHANGED <<dbSources, dbRaw, lock, ncalls, check_download_pars, call,
                   source, raw_data, new_data, pending, err, hist, okSaves,
                   collectErr>>

\* Cleanup without the loop of lines 716-717
CleanupDeletesNothing(t) ==
    /\ pc[t] = "cleanup"
    /\ pc' = [pc EXCEPT ![t] = "raised"]
    /\ UNCHANGED <<shared, lock, ncalls, check_download_pars, call, source,
                   raw_data, new_data, pending, err, hist, okSaves, collectErr>>

\* lines 714-718: data.delete_data_from_disk() of every new dataset, then
\* the exception is raised again.  A dataset that save() did not write has
\* no file of its own yet, and its deletion removes nothing.
Cleanup(t) ==
    /\ pc[t] = "cleanup"
    /\ LET written == IF hist[t].wrote THEN Range(new_data[t]) ELSE {}
       IN /\ keys' = KeysAfterDelete(written, keys)
          /\ files' = FilesAfterDelete(written, files, keys)
    /\ pc' = [pc EXCEPT ![t] = "raised"]
    /\ UNCHANGED <<dbSources, dbRaw, lock, ncalls, check_download_pars, call,
                   source, raw_data, new_data, pending, err, hist, okSaves,
                   collectErr>>

\* the thread's locals are gone once its call is over
Forget(t) ==
    /\ pc' = [pc EXCEPT ![t] = "idle"]
    /\ call' = [call EXCEPT ![t] = NoCall]
    /\ source' = [source EXCEPT ![t] = NoSource]
    /\ raw_data' = [raw_data EXCEPT ![t] = None]
    /\ new_data' = [new_data EXCEPT ![t] = <<>>]
    /\ err' = [err EXCEPT ![t] = "none"]
    /\ hist' = [hist EXCEPT ![t] = NoHist]

\* download_all_sources, lines 428-441: the caller looks for the data of
\* this observatory on the returned source and raises RuntimeError when
\* there is none
Collect(t) ==
    /\ pc[t] = "returned"
    /\ collectErr' = (collectErr \/ get_raw_data(source[t]) = None)
    /\ Forget(t)
    /\ UNCHANGED <<shared, lock, ncalls, check_download_pars, pending, okSaves>>

\* the exception of a call reaches its caller
Propagate(t) ==
    /\ pc[t] = "raised"
    /\ Forget(t)
    /\ UNCHANGED <<shared, lock, ncalls, check_download_pars, pending, okSaves,
                   collectErr>>

Next ==
    \E t \in Threads :
        \/ Call(t) /\ UNCHANGED otherVars
        \/ CheckFile(t) /\ UNCHANGED otherVars
        \/ AcquireLoad(t) /\ UNCHANGED otherVars
        \/ Load(t) /\ UNCHANGED otherVars
        \/ Fetch(t) /\ UNCHANGED otherVars
        \/ AcquireSave(t) /\ UNCHANGED otherVars
        \/ Save(t) /\ UNCHANGED otherVars
        \/ Commit(t) /\ UNCHANGED otherVars
        \/ Cleanup(t) /\ UNCHANGED otherVars
        \/ Collect(t) /\ UNCHANGED otherVars
        \/ Propagate(t) /\ UNCHANGED otherVars

Spec == Init /\ [][Next]_vars

\* ------------------------------------------- rows with the same name
\* a call of check_and_fetch_source for any catalog row, also for a row
\* with the name of the row another thread is working on (lines 493-505
\* submit whatever rows the catalog has)
CallAny(t) ==
    /\ pc[t] = "idle"
    /\ ncalls < MaxCalls
    /\ \E n \in Names, sv \in BOOLEAN, dp \in ParVals : Begin(t, n, sv, dp)

NextSameName ==
    \E t \in Threads :
        \/ CallAny(t) /\ UNCHANGED otherVars
        \/ CheckFile(t) /\ UNCHANGED otherVars
        \/ AcquireLoad(t) /\ UNCHANGED otherVars
        \/ Load(t) /\ UNCHANGED otherVars
        \/ Fetch(t) /\ UNCHANGED otherVars
        \/ AcquireSave(t) /\ UNCHANGED otherVars
        \/ Save(t) /\ UNCHANGED otherVars
        \/ Commit(t) /\ UNCHANGED otherVars
        \/ Cleanup(t) /\ UNCHANGED otherVars
        \/ Collect(t) /\ UNCHANGED otherVars
        \/ Propagate(t) /\ UNCHANGED otherVars

SpecSameName == Init /\ [][NextSameName]_vars

\* ------------------------------------------------- download_all_sources
\* the name of catalog row r (catalog.get_row(r)["name"]); neighbouring
\* rows have different names
CatName(r) == IF r % 2 = 0 THEN "a" ELSE "b"

Min(x, y) == IF x < y THEN x ELSE y
Max(x, y) == IF x > y THEN x ELSE y

\* the threads that were given a row of the current range
Assigned == {t \in Threads : row[t] >= 0}

\* results collected with a future read more than once
OrdersWithRepeats(S) == [1..Cardinality(S) -> S]

\* the orders in which the results of a range can be collected
Orders(S) ==
    {o \in [1..Cardinality(S) -> S] : \A j, k \in 1..Cardinality(S) :
                                           j # k => o[j] # o[k]}

\* what the database and the file store can hold when a run begins
BatchChoice == [a : {"absent", "saved"}, b : {"absent", "saved"}]

\* self.sources (and self.datasets) as the call before has left them: empty,
\* or with the last row of the catalog
Kept == {<<>>, <<CatLen - 1>>}

\* lines 343-399: the arguments (start and stop given, or None and
\* replaced by 0 and len(self.catalog)) and the pars
BatchArgs ==
    [start : 0..1, stop : 0..CatLen, save : BOOLEAN, dp : {1},
     num_threads_download : NumThreads, download_batch_size : 0..MaxBatch]

InitBatch ==
    \E st \in BatchChoice, b \in BatchArgs :
        /\ check_download_pars \in BOOLEAN
        /\ Store(st)
        /\ Idle
        /\ batch = b
        /\ loop = [pc |-> "start", i |-> b.start, num_loaded |-> 0,
                   err |-> "none", asked |-> -1]
        /\ sources \in Kept
        /\ datasets = sources
        /\ row = [t \in Threads |-> -1]
        /\ started = [r \in 0..(CatLen - 1) |-> 0]
        /\ NoPars
        /\ NoHistogram
        /\ NoReduction
        /\ NoPopulate

\* download_batch without the max of line 404
download_batch_unguarded == batch.num_threads_download

\* line 404: the step of the for loop
download_batch == Max(batch.num_threads_download, 1)

\* line 417
num_threads == Min(batch.num_threads_download, batch.stop - loop.i)

\* the test of line 413 never made
never_full == FALSE

\* line 413: the temporary sources/datasets are full
full == Len(sources) > batch.download_batch_size

\* Start that keeps the lists of the call before
StartKeepsLists ==
    /\ loop.pc = "start"
    /\ loop' = [loop EXCEPT !.pc = "range", !.num_loaded = 0]
    /\ UNCHANGED <<sources, datasets>>
    /\ UNCHANGED <<workerVars, batch, row, started>>

\* lines 400-402: self.sources = [], self.datasets = [], num_loaded = 0
Start ==
    /\ loop.pc = "start"
    /\ loop' = [loop EXCEPT !.pc = "range", !.num_loaded = 0]
    /\ sources' = <<>>
    /\ datasets' = <<>>
    /\ UNCHANGED <<workerVars, batch, row, started>>

\* lines 406-426 and 488-505: one pass of the for loop up to the call of
\* check_and_fetch_source (single threaded) or to the submission of the
\* rows i .. i + num_threads - 1 to a new pool.  catalog.get_row of an
\* index that is not in the catalog raises IndexError in the submitting
\* thread; the rows submitted before it are run, and the pool is left
\* when they are over.
BeginRange ==
    /\ loop.pc = "range"
    /\ IF loop.i >= batch.stop \/ loop.i >= CatLen
       THEN /\ loop' = [loop EXCEPT !.pc = "done"]
            /\ UNCHANGED <<sources, datasets, row, pc>>
       ELSE LET workers == IF num_threads > 1 THEN num_threads ELSE 1
                top == loop.i + workers - 1
                given == {k \in 1..workers : loop.i + k - 1 < CatLen}
            IN /\ sources' = IF full THEN <<>> ELSE sources
               /\ datasets' = IF full THEN <<>> ELSE datasets
               /\ row' = [t \in Threads |->
                     IF \E k \in given : Pool[k] = t
                     THEN loop.i + (CHOOSE k \in given : Pool[k] = t) - 1
                     ELSE -1]
               /\ pc' = [t \in Threads |->
                     IF \E k \in given : Pool[k] = t
                     THEN "queued" ELSE pc[t]]
               /\ loop' = [loop EXCEPT
                     !.pc = "wait",
                     !.asked = Max(@, Min(top, CatLen)),
                     !.err = IF top >= CatLen THEN "IndexError" ELSE @]
    /\ UNCHANGED <<shared, lock, ncalls, check_download_pars, call, source,
                   raw_data, new_data, pending, err, hist, okSaves,
                   collectErr, batch, started>>

\* lines 419-426 and 497-505: the thread starts check_and_fetch_source
\* for its row, with the save and fetch_args of the run
Run(t) ==
    /\ pc[t] = "queued"
    /\ Begin(t, CatName(row[t]), batch.save, batch.dp)
    /\ started' = [started EXCEPT ![row[t]] = @ + 1]
    /\ UNCHANGED <<batch, loop, sources, datasets, row>>

\* wait(..., FIRST_COMPLETED) in place of line 508
FirstCompleted == \E t \in Assigned : pc[t] \in {"returned", "raised"}

\* lines 507-509: concurrent.futures.wait(..., ALL_COMPLETED), and on the
\* single threaded path the return of the call
AllCompleted == \A t \in Assigned : pc[t] \in {"returned", "raised"}

\* no result of a future is an exception
RaisedNone == {}

\* lines 511-514: the workers whose future.result() raises
Raised == {t \in Assigned : pc[t] = "raised"}

\* lines 511-522 and 427-446: the results of the range are collected.
\* The IndexError of catalog.get_row leaves the run once the pool is over.
\* The exception of a worker is raised again; a source without data of
\* this observatory raises RuntimeError; otherwise the sources and their
\* datasets are kept and the loop goes on with i + download_batch.
Gather ==
    /\ loop.pc = "wait"
    /\ AllCompleted
    /\ IF loop.err = "IndexError"
       THEN /\ loop' = [loop EXCEPT !.pc = "failed"]
            /\ UNCHANGED <<sources, datasets, collectErr>>
       ELSE IF Raised # {}
       THEN /\ \E t \in Raised :
                 loop' = [loop EXCEPT !.pc = "failed", !.err = err[t]]
            /\ UNCHANGED <<sources, datasets, collectErr>>
       ELSE IF \E t \in Assigned : get_raw_data(source[t]) = None
       THEN /\ loop' = [loop EXCEPT !.pc = "failed", !.err = "RuntimeError"]
            /\ collectErr' = TRUE
            /\ UNCHANGED <<sources, datasets>>
       ELSE /\ \E o \in Orders(Assigned) :
                 LET got == [k \in 1..Cardinality(Assigned) |-> row[o[k]]]
                 IN /\ sources' = sources \o got
                    /\ datasets' = datasets \o got
            /\ loop' = [loop EXCEPT
                  !.pc = "range",
                  !.i = @ + download_batch,
                  !.num_loaded = @ + Cardinality(Assigned)]
            /\ UNCHANGED collectErr
    /\ pc' = [t \in Threads |-> "idle"]
    /\ call' = [t \in Threads |-> NoCall]
    /\ source' = [t \in Threads |-> NoSource]
    /\ raw_data' = [t \in Threads |-> None]
    /\ new_data' = [t \in Threads |-> <<>>]
    /\ err' = [t \in Threads |-> "none"]
    /\ hist' = [t \in Threads |-> NoHist]
    /\ row' = [t \in Threads |-> -1]
    /\ UNCHANGED <<shared, lock, ncalls, check_download_pars, pending,
                   okSaves, batch, started>>

NextBatch ==
    \/ Start /\ UNCHANGED objectVars
    \/ BeginRange /\ UNCHANGED objectVars
    \/ Gather /\ UNCHANGED objectVars
    \/ \E t \in Threads :
        \/ Run(t) /\ UNCHANGED objectVars
        \/ CheckFile(t) /\ UNCHANGED otherVars
        \/ AcquireLoad(t) /\ UNCHANGED otherVars
        \/ Load(t) /\ UNCHANGED otherVars
        \/ Fetch(t) /\ UNCHANGED otherVars
        \/ AcquireSave(t) /\ UNCHANGED otherVars
        \/ Save(t) /\ UNCHANGED otherVars
        \/ Commit(t) /\ UNCHANGED otherVars
        \/ Cleanup(t) /\ UNCHANGED otherVars

SpecBatch == InitBatch /\ [][NextBatch]_vars

\* The threads of a pool are scheduled and the calling thread runs: while
\* some step can be taken, a step is taken.
SpecBatchLive == SpecBatch /\ WF_vars(NextBatch)

\* a run of download_all_sources with any stop, also an explicit stop
\* beyond the last row of the catalog
InitAnyStop ==
    \E st \in BatchChoice,
       b \in [start : 0..1, stop : 0..(CatLen + 1), save : BOOLEAN, dp : {1},
              num_threads_download : NumThreads,
              download_batch_size : 0..MaxBatch] :
        /\ check_download_pars \in BOOLEAN
        /\ Store(st)
        /\ Idle
        /\ batch = b
        /\ loop = [pc |-> "start", i |-> b.start, num_loaded |-> 0,
                   err |-> "none", asked |-> -1]
        /\ sources \in Kept
        /\ datasets = sources
        /\ row = [t \in Threads |-> -1]
        /\ started = [r \in 0..(CatLen - 1) |-> 0]
        /\ NoPars
        /\ NoHistogram
        /\ NoReduction
        /\ NoPopulate

SpecAnyStop == InitAnyStop /\ [][NextBatch]_vars

\* ------------------------------------------- the Parameters object
\* the identity of the object made for key k of a dictionary
NewId(k) == nobj + (IF k = "p" THEN 1 ELSE 2)

\* lines 108-109: for k, v in dictionary.items(): setattr(self, k, v)
RECURSIVE read(_, _, _)
read(a, d, ks) ==
    IF ks = {} THEN a
    ELSE LET k == CHOOSE x \in ks : TRUE
         IN read(setattr(a, k, Obj(d[k], NewId(k))), d, ks \ {k})

\* update_one with every value assigned (line 131 only)
update_replaces(a, k, v) == setattr(a, k, v)

\* lines 125-133: one pass of the loop of update
update_one(a, k, v) ==
    IF hasattr(a, k)
    THEN IF getattr(a, k).kind = "set" /\ v.kind \in {"set", "list"}
         THEN setattr(a, k, [getattr(a, k) EXCEPT
                                  !.items = set_update(@, v.items)])
         ELSE IF getattr(a, k).kind = "dict" /\ v.kind = "dict"
         THEN setattr(a, k, [getattr(a, k) EXCEPT
                                  !.items = dict_update(@, v.items)])
         ELSE setattr(a, k, v)
    ELSE setattr(a, k, v)

\* lines 124-133
RECURSIVE update(_, _, _)
update(a, d, ks) ==
    IF ks = {} THEN a
    ELSE LET k == CHOOSE x \in ks : TRUE
         IN update(update_one(a, k, Obj(d[k], NewId(k))), d, ks \ {k})

\* verify that notices only an attribute of the instance
missing_strict(a, req) == {p \in req : a[p] = Unset}

\* lines 47-49: the required parameters that verify() finds missing
missing(a, req) == {p \in req : ~hasattr(a, p)}

\* read without the loop of lines 108-109
ReadNothing(d) ==
    /\ nops < MaxOps
    /\ UNCHANGED attrs
    /\ raised' = "none"
    /\ last' = [name |-> "read", d |-> d]
    /\ nops' = nops + 1
    /\ nobj' = nobj + 2
    /\ UNCHANGED required_pars

\* Parameters(required_pars): lines 37-38
InitPars ==
    /\ \E st \in {[a |-> "absent", b |-> "absent"]} : Store(st)
    /\ check_download_pars = FALSE
    /\ Idle
    /\ NoRun
    /\ attrs = [k \in Keys |-> Unset]
    /\ required_pars \in Required
    /\ raised = "none"
    /\ last = [name |-> "none", d |-> NoDict]
    /\ nops = 0
    /\ nobj = 0
    /\ NoHistogram
    /\ NoReduction
    /\ NoPopulate

\* pars.k = v in the code that uses the object
Assign(k, v) ==
    /\ nops < MaxOps
    /\ attrs' = setattr(attrs, k, Obj(v, nobj + 1))
    /\ raised' = "none"
    /\ last' = [name |-> "assign", d |-> NoDict]
    /\ nops' = nops + 1
    /\ nobj' = nobj + 2
    /\ UNCHANGED required_pars

\* lines 40-49
Verify ==
    /\ nops < MaxOps
    /\ raised' = IF missing(attrs, required_pars) # {} THEN "ValueError"
                 ELSE "none"
    /\ last' = [name |-> "verify", d |-> NoDict]
    /\ nops' = nops + 1
    /\ UNCHANGED <<attrs, required_pars, nobj>>

\* lines 97-109
Read(d) ==
    /\ nops < MaxOps
    /\ attrs' = read(attrs, d, KeysOf(d))
    /\ raised' = "none"
    /\ last' = [name |-> "read", d |-> d]
    /\ nops' = nops + 1
    /\ nobj' = nobj + 2
    /\ UNCHANGED required_pars

\* what yaml.safe_load makes of a plain YAML file: a mapping whose values
\* are null, strings, mappings and sequences
Yaml == {d \in Dicts : \A k \in InKeys : d[k].kind # "set"}

\* lines 63-95: the file is opened and parsed, and config (or config[key])
\* is read; a file that does not exist raises FileNotFoundError
LoadFile(d, found) ==
    /\ nops < MaxOps
    /\ attrs' = IF found THEN read(attrs, d, KeysOf(d)) ELSE attrs
    /\ raised' = IF found THEN "none" ELSE "FileNotFoundError"
    /\ last' = [name |-> "load", d |-> IF found THEN d ELSE NoDict]
    /\ nops' = nops + 1
    /\ nobj' = nobj + 2
    /\ UNCHANGED required_pars

\* lines 111-133
Update(d) ==
    /\ nops < MaxOps
    /\ attrs' = update(attrs, d, KeysOf(d))
    /\ raised' = "none"
    /\ last' = [name |-> "update", d |-> d]
    /\ nops' = nops + 1
    /\ nobj' = nobj + 2
    /\ UNCHANGED required_pars

NextPars ==
    \/ \E k \in Keys, v \in Lit : Assign(k, v) /\ UNCHANGED <<workerVars, batchVars, histVars, reduceVars, commitVars>>
    \/ Verify /\ UNCHANGED <<workerVars, batchVars, histVars, reduceVars, commitVars>>
    \/ \E d \in Dicts : Read(d) /\ UNCHANGED <<workerVars, batchVars, histVars, reduceVars, commitVars>>
    \/ \E d \in Yaml, found \in BOOLEAN :
          LoadFile(d, found) /\ UNCHANGED <<workerVars, batchVars, histVars, reduceVars, commitVars>>
    \/ \E d \in Dicts : Update(d) /\ UNCHANGED <<workerVars, batchVars, histVars, reduceVars, commitVars>>

SpecPars == InitPars /\ [][NextPars]_vars

\* ------------------------------------------------ the Histogram object
RECURSIVE Prod(_)
Prod(seq) == IF seq = <<>> THEN 1 ELSE Head(seq) * Prod(Tail(seq))

RECURSIVE Sum(_)
Sum(seq) == IF seq = <<>> THEN 0 ELSE Head(seq) + Sum(Tail(seq))

\* np.arange(start, stop, step) for a positive step: start, start + step,
\* ... below stop
arange(start, stop, step) ==
    LET n == IF stop > start THEN (stop - start + step - 1) \div step ELSE 0
    IN [i \in 1..n |-> start + (i - 1) * step]

get_coordinate_name(name) ==
    CASE name = "mag" -> "Magnitude"
      [] name = "dmag" -> "Delta Magnitude"
      [] name = "snr" -> "Signal to Noise Ratio"
      [] name = "exptime" -> "Exposure Time"
      [] name = "filt" -> "Filter"
      [] OTHER -> name

\* xr.DataArray(values, dims=[name]) with its attrs; step is <<>> when the
\* attrs have no "step"
Axis(name, values, type, step, units) ==
    [values |-> values, type |-> type, step |-> step, units |-> units,
     long_name |-> get_coordinate_name(name), input |-> "none"]

\* create_coordinate: ok = FALSE is ValueError
create_coordinate(name, specs) ==
    IF ~specs.tuple
    THEN [ok |-> FALSE]
    ELSE LET units == IF specs.tail # <<>> THEN specs.tail[1] ELSE ""
             sp == specs.items
         IN CASE Len(sp) = 0 ->
                   [ok |-> TRUE, ax |-> Axis(name, <<>>, "dynamic", <<>>, units)]
              [] Len(sp) = 2 ->
                   [ok |-> TRUE,
                    ax |-> Axis(name, <<sp[1]>>, "dynamic", <<sp[2]>>, units)]
              [] Len(sp) = 3 ->
                   [ok |-> TRUE,
                    ax |-> Axis(name, arange(sp[1], sp[2] + sp[3], sp[3]),
                                "fixed", <<sp[3]>>, units)]
              [] OTHER -> [ok |-> FALSE]

\* d[k] = v on a dict: a key that is there keeps its place
setitem(d, k, v) ==
    IF \E i \in 1..Len(d) : d[i].k = k
    THEN [i \in 1..Len(d) |-> IF d[i].k = k THEN Item(k, v) ELSE d[i]]
    ELSE Append(d, Item(k, v))

\* the items of the three dicts in the order the loops of lines 79-80 meet
\* them
AllItems(p) ==
    LET Tagged(d, input) ==
            [i \in 1..Len(d) |-> [input |-> input, k |-> d[i].k, v |-> d[i].v]]
    IN Tagged(p.score_coords, "score") \o Tagged(p.source_coords, "source")
           \o Tagged(p.obs_coords, "obs")

\* lines 78-82
RECURSIVE build_coords(_, _)
build_coords(items, coords) ==
    IF items = <<>>
    THEN [ok |-> TRUE, coords |-> coords]
    ELSE LET it == Head(items)
             c == create_coordinate(it.k, it.v)
         IN IF ~c.ok
            THEN [ok |-> FALSE]
            ELSE build_coords(Tail(items),
                     setitem(coords, it.k, [c.ax EXCEPT !.input = it.input]))

\* the coordinates with attrs["input"] == "score"
scores(coords) == SelectSeq(coords, LAMBDA e : e.v.input = "score")

\* lines 84-91
common(coords) == SelectSeq(coords, LAMBDA e : e.v.input # "score")
data_shape(coords) ==
    [i \in 1..Len(common(coords)) |-> Len(common(coords)[i].v.values)]
common_coord_names(coords) ==
    [i \in 1..Len(common(coords)) |-> common(coords)[i].k]

\* np.zeros(shape, dtype)
zeros(shape, dtype) ==
    [shape |-> shape, dtype |-> dtype, cells |-> [i \in 1..Prod(shape) |-> 0]]

\* the shape of a count array that leaves its score axis out
score_shape_dropped(coords, e) == data_shape(coords)

\* line 98: the shape of the count array of score coordinate e
score_shape(coords, e) == Append(data_shape(coords), Len(e.v.values))

\* lines 93-99: the name k + "_counts" is the pair <<k, "_counts">>
data_vars(coords, dtype) ==
    LET sc == scores(coords)
    IN [i \in 1..Len(sc) |->
           [name |-> <<sc[i].k, "_counts">>,
            dims |-> Append(common_coord_names(coords), sc[i].k),
            array |-> zeros(score_shape(coords, sc[i]), dtype)]]

Called(name, args) == hlast' = [name |-> name, args |-> args]

\* initialize_data, lines 70-101; pars.verify() has nothing to require
InitializeData ==
    /\ Called("initialize_data", NoArgs)
    /\ result' = NoResult
    /\ LET c == build_coords(AllItems(pars), <<>>)
       IN IF pars.dtype \notin {"uint16", "uint32"} \/ ~c.ok
          THEN /\ hraised' = "ValueError"
               /\ UNCHANGED data
          ELSE /\ hraised' = "none"
               /\ data' = Dataset(data_vars(c.coords, pars.dtype), c.coords)
    /\ UNCHANGED pars

\* d.dtype.itemsize
itemsize(dtype) == IF dtype = "uint16" THEN 2 ELSE 4

\* lines 269-278: a final "s" is dropped and the case ignored
unit_convert_bytes(units) ==
    CASE units = "kb" -> 1024
      [] units = "MBs" -> 1024 * 1024
      [] units = "gb" -> 1024 * 1024 * 1024
      [] OTHER -> 1

\* lines 207-211
get_size(d) ==
    Sum([i \in 1..Len(d.data_vars) |->
            Prod(d.data_vars[i].array.shape)
                * itemsize(d.data_vars[i].array.dtype)])

GetSize(units) ==
    /\ Called("get_size", [NoArgs EXCEPT !.units = units])
    /\ IF ~data.built
       THEN /\ hraised' = "AttributeError"
            /\ result' = NoResult
       ELSE /\ hraised' = "none"
            /\ result' = [total_size |-> get_size(data),
                          per |-> unit_convert_bytes(units), data |-> NoData]
    /\ UNCHANGED <<pars, data>>

\* an axis counts as not filled when it has at most one value
Estimated(ax, dyn_size) ==
    IF Len(ax.values) <= 1 THEN dyn_size ELSE Len(ax.values)

\* the factor of a common axis when the axes with values are left out
common_factor_dynamic_only(ax, dyn_coord_size) ==
    IF Len(ax.values) <= 1 THEN dyn_coord_size ELSE 1

\* lines 248-251: the factor of a common axis
common_factor(ax, dyn_coord_size) == Estimated(ax, dyn_coord_size)

\* lines 244-251
common_size(d, dyn_coord_size) ==
    LET c == common(d.coords)
    IN Prod([i \in 1..Len(c) |-> common_factor(c[i].v, dyn_coord_size)])

\* lines 253-260
score_size(d, dyn_score_size) ==
    LET sc == scores(d.coords)
    IN Sum([i \in 1..Len(sc) |-> Estimated(sc[i].v, dyn_score_size)])

\* get_size_estimate, lines 213-267; the value returned is
\* total_size / per
GetSizeEstimate(units, dyn_coord_size, dyn_score_size) ==
    /\ Called("get_size_estimate",
              [NoArgs EXCEPT !.units = units,
                             !.dyn_coord_size = dyn_coord_size,
                             !.dyn_score_size = dyn_score_size])
    /\ IF ~data.built
       THEN /\ hraised' = "AttributeError"
            /\ result' = NoResult
       ELSE IF data.data_vars = <<>>
       THEN /\ hraised' = "IndexError"
            /\ result' = NoResult
       ELSE /\ hraised' = "none"
            /\ result' =
                 [total_size |-> common_size(data, dyn_coord_size)
                                   * score_size(data, dyn_score_size)
                                   * itemsize(data.data_vars[1].array.dtype),
                  per |-> unit_convert_bytes(units), data |-> NoData]
    /\ UNCHANGED <<pars, data>>

\* add_data, lines 280-281: the body is pass
AddData(score, value) ==
    /\ Called("add_data", [NoArgs EXCEPT !.score = score, !.value = value])
    /\ hraised' = "none"
    /\ result' = NoResult
    /\ UNCHANGED <<pars, data>>

\* self + other: the class defines no __add__ and no __radd__, so the
\* operator raises TypeError
Add ==
    /\ Called("add", NoArgs)
    /\ hraised' = "TypeError"
    /\ result' = NoResult
    /\ UNCHANGED <<pars, data>>

\* Histogram() and the parameters its user sets before initialize_data
InitHist ==
    /\ \E st \in {[a |-> "absent", b |-> "absent"]} : Store(st)
    /\ check_download_pars = FALSE
    /\ Idle
    /\ NoRun
    /\ NoPars
    /\ NoReduction
    /\ NoPopulate
    /\ pars \in HistPars
    /\ data = NoData
    /\ hlast = [name |-> "none", args |-> NoArgs]
    /\ hraised = "none"
    /\ result = NoResult

NextHist ==
    \/ InitializeData /\ UNCHANGED <<workerVars, batchVars, parsVars, reduceVars, commitVars>>
    \/ \E u \in {"bytes", "MBs"} : GetSize(u) /\ UNCHANGED <<workerVars, batchVars, parsVars, reduceVars, commitVars>>
    \/ \E u \in {"bytes", "MBs"}, dyn \in {<<3, 100>>, <<2, 5>>} :
          GetSizeEstimate(u, dyn[1], dyn[2]) /\ UNCHANGED <<workerVars, batchVars, parsVars, reduceVars, commitVars>>
    \/ \E k \in {"snr", "dmag"}, v \in -1..(MaxStop + 1) :
          AddData(k, v) /\ UNCHANGED <<workerVars, batchVars, parsVars, reduceVars, commitVars>>
    \/ Add /\ UNCHANGED <<workerVars, batchVars, parsVars, reduceVars, commitVars>>

SpecHist == InitHist /\ [][NextHist]_vars

\* --------------------------------------------------------- the reductions
\* np.nanmedian(mag), doubled to stay among the integers; <<>> is nan (no
\* rows)
median2(table) ==
    LET n == Len(table)
        sorted == CHOOSE q \in [1..n -> {table[i].mag : i \in 1..n}] :
                    /\ \A i \in 1..(n - 1) : q[i] <= q[i + 1]
                    /\ \A m \in {table[i].mag : i \in 1..n} :
                         Cardinality({i \in 1..n : q[i] = m})
                           = Cardinality({i \in 1..n : table[i].mag = m})
    IN IF n = 0 THEN <<>>
       ELSE IF n % 2 = 1 THEN <<2 * sorted[(n + 1) \div 2]>>
       ELSE <<sorted[n \div 2] + sorted[n \div 2 + 1]>>

\* the test of line 1373 with both bounds allowed
within_closed(med2, mag_mn, mag_mx) ==
    med2 # <<>> /\ 2 * mag_mn <= med2[1] /\ med2[1] <= 2 * mag_mx

\* line 1373: mag_mn < np.nanmedian(mag) < mag_mx; a comparison with nan
\* is False
within(med2, mag_mn, mag_mx) ==
    med2 # <<>> /\ 2 * mag_mn < med2[1] /\ med2[1] < 2 * mag_mx

\* lines 1369-1374: the dataset is not within the range.  A mag_range of
\* None or 0 is false in the test of line 1369.
out_of_range(ds, src, mag_range) ==
    /\ src.class = "Source"
    /\ src.mag # NoMag
    /\ mag_range \notin {NoRange, 0}
    /\ ~within(median2(ds.data), src.mag - mag_range, src.mag + mag_range)

\* line 1381: the filters in the order of their first row
RECURSIVE unique(_)
unique(seq) ==
    IF seq = <<>> THEN <<>>
    ELSE LET rest == unique(SubSeq(seq, 1, Len(seq) - 1))
             x == seq[Len(seq)]
         IN IF \E i \in 1..Len(rest) : rest[i] = x THEN rest ELSE Append(rest, x)

\* the rows a filter's frame keeps when no row is dropped
keep_flagged(df, drop_bad, has_flag) == df

\* lines 1388-1389
drop_flagged(df, drop_bad, has_flag) ==
    IF drop_bad /\ has_flag
    THEN SelectSeq(df, LAMBDA r : r.flag = 0)
    ELSE df

\* lines 1385-1389: the frame of filter f; the frame that reset_index
\* returns at line 1386 is not kept, so the rows keep their labels
frame_of(ds, f, drop_bad) ==
    drop_flagged(SelectSeq(ds.data, LAMBDA r : r.filter = f), drop_bad,
                 ds.has_flag)

\* sort_values by time, then reset_index
RECURSIVE insert_by_time(_, _)
insert_by_time(r, seq) ==
    IF seq = <<>> THEN <<r>>
    ELSE IF r.mjd <= Head(seq).mjd THEN <<r>> \o seq
    ELSE <<Head(seq)>> \o insert_by_time(r, Tail(seq))

RECURSIVE sort_by_time(_)
sort_by_time(seq) ==
    IF seq = <<>> THEN <<>>
    ELSE insert_by_time(Head(seq), sort_by_time(Tail(seq)))

\* the start time of a lightcurve without rows
NoTime == 0

\* Lightcurve(data=df, **init_kwargs): the rows sorted by time and
\* labelled anew, the number of points, the filter and the start time
Lightcurve(df, init_kwargs) ==
    LET rows == DataFrame(sort_by_time(df))
    IN [data |-> rows,
        number |-> Len(rows),
        filter |-> IF rows = <<>> THEN "none" ELSE rows[1].filter,
        time_start |-> IF rows = <<>> THEN NoTime ELSE rows[1].mjd,
        raw_data_id |-> init_kwargs.raw_data_id,
        source |-> "none",
        project |-> "none",
        reduction_number |-> 0,
        reduction_total |-> 0]

\* VirtualDemoObs.reduce_photometry, lines 1317-1398
reduce_photometry(ds, src, init_kwargs, mag_range, drop_bad) ==
    IF ds.class # "RawPhotometry" THEN [err |-> "TypeError", out |-> <<>>]
    ELSE IF ~ds.tabular THEN [err |-> "ValueError", out |-> <<>>]
    ELSE IF out_of_range(ds, src, mag_range) THEN [err |-> "none", out |-> <<>>]
    ELSE LET filters == unique([i \in 1..Len(ds.data) |-> ds.data[i].filter])
         IN [err |-> "none",
             out |-> [i \in 1..Len(filters) |->
                        Lightcurve(frame_of(ds, filters[i], drop_bad),
                                   init_kwargs)]]

\* convert_data_type: the names of a type are turned into the one name the
\* attributes use; no data type is the type of the observatory's data
convert_data_type(data_type) ==
    CASE data_type \in {"None", "photometry", "lcs"} -> "photometry"
      [] OTHER -> data_type

\* Source.get_raw_data(obs, data_type): the raw data of that type
source_raw_data(src, data_type) ==
    IF src.raw.type = convert_data_type(data_type)
    THEN src.raw
    ELSE NoDataset

\* lines 1019-1023: the reducer parameters of the config, then the user's
merge_kwargs(obs, kwargs) ==
    IF obs.reducer = <<>> THEN kwargs
    ELSE [k \in {"mag_range", "drop_bad"} |->
             IF kwargs[k] # <<>> THEN kwargs[k] ELSE obs.reducer[1][k]]

\* lines 1079-1120, as far as the lightcurves below keep it
make_init_kwargs(ds) == [raw_data_id |-> ds.id]

\* lines 1039-1042: reduce_<type> or reduce_<type>_to_<type>
reducer_name(data_type, output_type) ==
    IF data_type = output_type THEN <<data_type>> ELSE <<data_type, output_type>>

\* a lookup that finds reduce_photometry whatever the class and the name
reducer_always_found(obs, name) == TRUE

\* lines 1045-1052: the object has the attribute and it is callable
reducer_found(obs, name) ==
    /\ obs.class = "VirtualDemoObs"
    /\ name = <<"photometry">>
    /\ name \notin obs.not_callable

\* the list as it is
unsorted(lcs) == lcs

\* line 1056: sorted(new_datasets, key=lambda x: x.time_start)
RECURSIVE insert_by_start(_, _)
insert_by_start(d, seq) ==
    IF seq = <<>> THEN <<d>>
    ELSE IF d.time_start <= Head(seq).time_start THEN <<d>> \o seq
    ELSE <<Head(seq)>> \o insert_by_start(d, Tail(seq))

RECURSIVE sorted_by_start(_)
sorted_by_start(lcs) ==
    IF lcs = <<>> THEN <<>>
    ELSE insert_by_start(Head(lcs), sorted_by_start(Tail(lcs)))

\* lines 1058-1075: the properties the new datasets are given
finish(lcs, source_name) ==
    [i \in 1..Len(lcs) |->
        [lcs[i] EXCEPT !.project = "project", !.source = source_name,
                       !.reduction_number = i, !.reduction_total = Len(lcs)]]

\* the value of a keyword argument, or its default
Given(kw, k, default) == IF kw[k] = <<>> THEN default ELSE kw[k][1]

\* Reduce with the new datasets put in the place of the old ones at line
\* 1070
ReduceReplaces(arg, data_type, output_type, kwargs) ==
    /\ rlast.name = "none"
    /\ rlast' = [name |-> "reduce",
                 args |-> [source |-> arg, data_type |-> data_type,
                           output_type |-> output_type, kwargs |-> kwargs]]
    /\ LET is_source == arg.class = "Source"
           is_dataset == arg.class \in {"RawPhotometry", "RawImages"}
           ds == IF is_source THEN source_raw_data(arg, data_type) ELSE dataset
           dt == IF is_source THEN convert_data_type(data_type) ELSE ds.type
           src == IF is_source THEN arg ELSE NoneSource
           kw == merge_kwargs(observatory, kwargs)
           ot == IF output_type = "None" THEN dt
                 ELSE convert_data_type(output_type)
           name == reducer_name(dt, ot)
           new == reduce_photometry(ds, src, make_init_kwargs(ds),
                                    Given(kw, "mag_range", NoRange),
                                    Given(kw, "drop_bad", FALSE))
           done == finish(sorted_by_start(new.out), src.name)
       IN IF ~is_source /\ ~is_dataset
          THEN /\ rraised' = "TypeError"
               /\ rsource' = arg
               /\ new_datasets' = <<>>
          ELSE IF ds = NoDataset
          THEN /\ rraised' = "AttributeError"
               /\ rsource' = arg
               /\ new_datasets' = <<>>
          ELSE IF ~reducer_found(observatory, name)
          THEN /\ rraised' = "NotImplementedError"
               /\ rsource' = arg
               /\ new_datasets' = <<>>
          ELSE IF new.err # "none"
          THEN /\ rraised' = new.err
               /\ rsource' = arg
               /\ new_datasets' = <<>>
          ELSE /\ rraised' = "none"
               /\ new_datasets' = done
               /\ rsource' =
                    IF is_source
                    THEN [arg EXCEPT !.reduced[ot] = done]
                    ELSE arg
    /\ UNCHANGED <<observatory, dataset>>

\* VirtualObservatory.reduce, lines 958-1077
Reduce(arg, data_type, output_type, kwargs) ==
    /\ rlast.name = "none"
    /\ rlast' = [name |-> "reduce",
                 args |-> [source |-> arg, data_type |-> data_type,
                           output_type |-> output_type, kwargs |-> kwargs]]
    /\ LET is_source == arg.class = "Source"
           is_dataset == arg.class \in {"RawPhotometry", "RawImages"}
           ds == IF is_source THEN source_raw_data(arg, data_type) ELSE dataset
           dt == IF is_source THEN convert_data_type(data_type) ELSE ds.type
           src == IF is_source THEN arg ELSE NoneSource
           kw == merge_kwargs(observatory, kwargs)
           ot == IF output_type = "None" THEN dt
                 ELSE convert_data_type(output_type)
           name == reducer_name(dt, ot)
           new == reduce_photometry(ds, src, make_init_kwargs(ds),
                                    Given(kw, "mag_range", NoRange),
                                    Given(kw, "drop_bad", FALSE))
           done == finish(sorted_by_start(new.out), src.name)
       IN IF ~is_source /\ ~is_dataset
          THEN /\ rraised' = "TypeError"
               /\ rsource' = arg
               /\ new_datasets' = <<>>
          ELSE IF ds = NoDataset
          THEN /\ rraised' = "AttributeError"
               /\ rsource' = arg
               /\ new_datasets' = <<>>
          ELSE IF ~reducer_found(observatory, name)
          THEN /\ rraised' = "NotImplementedError"
               /\ rsource' = arg
               /\ new_datasets' = <<>>
          ELSE IF new.err # "none"
          THEN /\ rraised' = new.err
               /\ rsource' = arg
               /\ new_datasets' = <<>>
          ELSE /\ rraised' = "none"
               /\ new_datasets' = done
               /\ rsource' =
                    IF is_source
                    THEN [arg EXCEPT !.reduced[ot] = @ \o done]
                    ELSE arg
    /\ UNCHANGED <<observatory, dataset>>

\* a call of reduce_photometry on the demo observatory
ReducePhotometry(src, mag_range, drop_bad) ==
    /\ rlast.name = "none"
    /\ observatory.class = "VirtualDemoObs"
    /\ rlast' = [name |-> "reduce_photometry",
                 args |-> [source |-> src, data_type |-> "None",
                           output_type |-> "None",
                           kwargs |-> Kwargs(<<mag_range>>, <<drop_bad>>)]]
    /\ LET new == reduce_photometry(dataset, src, make_init_kwargs(dataset),
                                    mag_range, drop_bad)
       IN /\ rraised' = new.err
          /\ new_datasets' = new.out
    /\ rsource' = src
    /\ UNCHANGED <<observatory, dataset>>

\* fetch_data_from_observatory: lines 722-747 in the base class; the demo
\* class simulates a lightcurve (lines 1215-1291)
FetchData ==
    /\ rlast.name = "none"
    /\ rlast' = [name |-> "fetch_data_from_observatory", args |-> NoCallArgs]
    /\ rraised' = IF observatory.class = "VirtualObservatory"
                  THEN "NotImplementedError"
                  ELSE "none"
    /\ UNCHANGED <<observatory, dataset, rsource, new_datasets>>

\* an observatory, a raw dataset and no call so far
InitReduce ==
    /\ \E st \in {[a |-> "absent", b |-> "absent"]} : Store(st)
    /\ check_download_pars = FALSE
    /\ Idle
    /\ NoRun
    /\ NoPars
    /\ NoHistogram
    /\ NoPopulate
    /\ observatory \in Observatories
    /\ dataset \in IF observatory.class = "VirtualDemoObs" /\ observatory.reducer = <<>>
                       /\ observatory.not_callable = {}
                    THEN Datasets
                    ELSE FewDatasets
    /\ rsource = NoneSource
    /\ rlast = [name |-> "none", args |-> NoCallArgs]
    /\ rraised = "none"
    /\ new_datasets = <<>>

\* the reduced datasets an earlier call of reduce has left on a source:
\* two lightcurves, numbered 1 and 2 of 2
Earlier ==
    LET rows == <<[idx |-> 0, mjd |-> 2, mag |-> 18, filter |-> "g", flag |-> 0],
                  [idx |-> 0, mjd |-> 1, mag |-> 18, filter |-> "r", flag |-> 0]>>
        ds == [RawPhotometry(DataFrame(rows), FALSE) EXCEPT !.id = 0]
        new == reduce_photometry(ds, NoneSource, make_init_kwargs(ds),
                                 NoRange, FALSE)
    IN finish(sorted_by_start(new.out), "a")

\* what reduce is given: source, data_type and output_type
ReduceArgs ==
    {<<Source(18, dataset), "None", "None">>,
     <<[Source(18, dataset) EXCEPT !.reduced["photometry"] = Earlier],
       "None", "None">>,
     <<Source(18, dataset), "photometry", "lcs">>,
     <<Source(18, dataset), "photometry", "images">>,
     <<Source(18, dataset), "images", "None">>,
     <<Source(NoMag, dataset), "None", "None">>,
     <<Source(18, NoDataset), "None", "None">>,
     <<dataset, "None", "None">>,
     <<dataset, "None", "images">>,
     <<[NoneSource EXCEPT !.class = "str"], "None", "None">>}

NextReduce ==
    \/ \E a \in ReduceArgs, kw \in {Kwargs(<<>>, <<>>), Kwargs(<<1>>, <<FALSE>>)} :
          Reduce(a[1], a[2], a[3], kw)
            /\ UNCHANGED <<workerVars, batchVars, parsVars, histVars, commitVars>>
    \/ \E src \in {NoneSource, Source(18, dataset), Source(NoMag, dataset)},
          mag_range \in {NoRange, 0, 1}, drop_bad \in BOOLEAN :
          ReducePhotometry(src, mag_range, drop_bad)
            /\ UNCHANGED <<workerVars, batchVars, parsVars, histVars, commitVars>>
    \/ FetchData /\ UNCHANGED <<workerVars, batchVars, parsVars, histVars, commitVars>>

SpecReduce == InitReduce /\ [][NextReduce]_vars

\* ------------------------------------------------------ populate_sources
\* CommitSource without line 954: source_ids stays as it is
CommitSourceForgets(n, cat_id) ==
    /\ ncommits < MaxCommits
    /\ clast.raised = "none"
    /\ ncommits' = ncommits + 1
    /\ \E out \in {"none", "SaveError", "CommitError"} :
        LET e == IF n <= 0 \/ cat_id \in source_ids THEN "none"
                 ELSE IF cat_id \notin 0..(CatLen - 1) THEN "IndexError"
                 ELSE IF ~reducer_found(observatory, <<"photometry">>)
                 THEN "NotImplementedError"
                 ELSE out
            adds == n > 0 /\ cat_id \notin source_ids /\ e = "none"
        IN /\ clast' = [cat_id |-> cat_id, len |-> n, raised |-> e]
           /\ committed' = IF adds THEN [committed EXCEPT ![cat_id] = @ + 1]
                           ELSE committed
           /\ source_ids' = source_ids

\* commit_source, lines 906-954: no data or a known identifier returns at
\* once; otherwise the catalog row is looked up (which raises for an
\* identifier the catalog does not have), the Source and its raw data are
\* made, self.reduce(new_source) is called (NotImplementedError without a
\* reducer), the reduced datasets are saved, the session commits (either
\* may raise), and the identifier joins source_ids
CommitSource(n, cat_id) ==
    /\ ncommits < MaxCommits
    /\ clast.raised = "none"
    /\ ncommits' = ncommits + 1
    /\ \E out \in {"none", "SaveError", "CommitError"} :
        LET e == IF n <= 0 \/ cat_id \in source_ids THEN "none"
                 ELSE IF cat_id \notin 0..(CatLen - 1) THEN "IndexError"
                 ELSE IF ~reducer_found(observatory, <<"photometry">>)
                 THEN "NotImplementedError"
                 ELSE out
            adds == n > 0 /\ cat_id \notin source_ids /\ e = "none"
        IN /\ clast' = [cat_id |-> cat_id, len |-> n, raised |-> e]
           /\ committed' = IF adds THEN [committed EXCEPT ![cat_id] = @ + 1]
                           ELSE committed
           /\ source_ids' = IF adds THEN source_ids \cup {cat_id}
                            ELSE source_ids

\* lines 772-808: source_ids holds the identifiers of the sources the
\* database has; the loop has not begun
InitPopulate ==
    /\ \E st \in {[a |-> "absent", b |-> "absent"]} : Store(st)
    /\ check_download_pars = FALSE
    /\ Idle
    /\ NoRun
    /\ NoPars
    /\ NoHistogram
    /\ observatory \in Observatories
    /\ dataset = NoDataset
    /\ rsource = NoneSource
    /\ rlast = [name |-> "none", args |-> NoCallArgs]
    /\ rraised = "none"
    /\ new_datasets = <<>>
    /\ source_ids \in SUBSET (CatIds \cap 0..(CatLen - 1))
    /\ committed = [c \in CatIds |-> IF c \in source_ids THEN 1 ELSE 0]
    /\ ncommits = 0
    /\ clast = NoCommit

\* lines 786-806: commit_source for every key of every file, as long as
\* no call raises
NextPopulate ==
    \E n \in 0..1, cat_id \in CatIds :
        CommitSource(n, cat_id)
          /\ UNCHANGED <<workerVars, batchVars, parsVars, histVars, reduceVars>>

SpecPopulate == InitPopulate /\ [][NextPopulate]_vars

\* ----------------------------------------------------------------- claims
\* thread t takes a step
Steps(t) == pc'[t] # pc[t]

\* C1: once a call with save=True for a catalog row has returned, and after
\* every further call for that row, the database holds exactly one RawData
\* row for the source (and never more than one).
C1_ExactlyOneRow ==
    \A n \in Names :
        /\ Cardinality(RowsOf(n)) <= 1
        /\ okSaves[n] >= 1 => Cardinality(RowsOf(n)) = 1

\* two calls with save=True for row "a" have returned, the second one
\* having replaced the record of the first by a new fetch
C1_Witness ==
    /\ okSaves["a"] = 2
    /\ RowsOf("a") = {RawData(2, "a", 2, "a")}

\* C2: when the save step fails after the call has written its payload (in
\* data.save after the write, or in session.commit), then as the call
\* raises no table written by the call is left in the file
\* store, and no RawData row and no Source row of the call is in the
\* database.
C2_FailedSaveLeavesNothing ==
    [][\A t \in Threads :
          (pc[t] = "cleanup" /\ hist[t].wrote /\ Steps(t)) =>
              /\ pc'[t] = "raised"
              /\ \A r \in Range(new_data[t]) : r.source_name \notin keys'
              /\ Range(new_data[t]) \cap dbRaw' = {}
              /\ \A s \in dbSources' : s.id # call[t].id]_vars

\* a call has written its table, failed in the commit and raised
C2_Witness ==
    \E t \in Threads :
        /\ pc[t] = "raised"
        /\ err[t] = "CommitError"
        /\ hist[t].wrote
        /\ source[t].isNew
        /\ call[t].name \notin keys

\* C3: every RawData row committed in the database has its backing file
\* on disk.
C3_CommittedRowsHaveFiles ==
    \A r \in dbRaw : check_file_exists(r, files)

\* C4: a record whose backing file is missing makes the call raise
\* RuntimeError: nothing is fetched, the record stays on the source and in
\* the database, nothing is flushed, written or committed.
C4_MissingFileRaises ==
    [][\A t \in Threads :
          (/\ pc[t] = "check_file"
           /\ raw_data[t] # None
           /\ ~check_file_exists(raw_data[t], files)
           /\ Steps(t)) =>
              /\ pc'[t] = "raised"
              /\ err'[t] = "RuntimeError"
              /\ hist'[t].fetches = 0
              /\ pending'[t] = {}
              /\ new_data'[t] = <<>>
              /\ raw_data[t] \in Range(source'[t].raw)
              /\ UNCHANGED shared]_vars

\* a call raised RuntimeError for a record that is still in the database
C4_Witness ==
    \E t \in Threads :
        /\ pc[t] = "raised"
        /\ err[t] = "RuntimeError"
        /\ hist[t].found \in dbRaw
        /\ ~check_file_exists(hist[t].found, files)

\* C5: a load that ends with KeyError "No object named" removes the record
\* from the source and goes on to fetch without an error; a load that ends
\* with any other error raises it, and nothing is fetched.
C5_StaleRecordIsRefetched ==
    [][\A t \in Threads :
          (pc[t] = "load" /\ Steps(t)) =>
              /\ hist'[t].load = "stale" =>
                    /\ pc'[t] = "fetch"
                    /\ err'[t] = "none"
                    /\ raw_data'[t] = None
                    /\ raw_data[t] \notin Range(source'[t].raw)
              /\ hist'[t].load = "error" =>
                    /\ pc'[t] = "raised"
                    /\ err'[t] = "LoadError"
                    /\ hist'[t].fetches = 0
              /\ (hist'[t].load = "stale") =
                    (/\ hist'[t].load # "error"
                     /\ check_file_exists(raw_data[t], files)
                     /\ raw_data[t].source_name \notin keys)]_vars

\* a call found its record's key missing in the file, fetched again and
\* returned the new record
C5_Witness ==
    \E t \in Threads :
        /\ pc[t] = "returned"
        /\ hist[t].load = "stale"
        /\ hist[t].fetches = 1
        /\ raw_data[t].id = call[t].id

\* the call has passed the statement that decides whether to fetch
Decided(t) ==
    \/ pc[t] \in {"acquire_save", "save", "commit", "cleanup", "returned"}
    \/ pc[t] = "raised" /\ err[t] \notin {"RuntimeError", "LoadError"}

\* the conditions under which C6 lets the call fetch
MustFetch(t) ==
    \/ hist[t].found = None
    \/ hist[t].load = "stale"
    \/ /\ check_download_pars
       /\ hist[t].found.dp = 0 \/ hist[t].found.dp # call[t].dp

\* C6: a call fetches exactly when there is no valid record after the load
\* step, or check_download_pars is set and the recorded download parameters
\* are absent or differ from the current ones; it fetches at most once.
C6_FetchExactlyWhenNeeded ==
    \A t \in Threads :
        /\ hist[t].fetches <= 1
        /\ pc[t] = "fetch" => MustFetch(t) /\ hist[t].fetches = 0
        /\ Decided(t) => (hist[t].fetches = 1) = MustFetch(t)

\* with check_download_pars off, a record saved with other download
\* parameters was loaded and returned without a fetch
C6_Witness ==
    \E t \in Threads :
        /\ pc[t] = "returned"
        /\ ~check_download_pars
        /\ hist[t].found # None
        /\ hist[t].found.dp # call[t].dp
        /\ hist[t].load = "ok"
        /\ hist[t].fetches = 0

\* C7: the returned source holds exactly one record of this observatory:
\* the record loaded or fetched by the call, back-referenced to the source.
C7_OneAttachedRecord ==
    \A t \in Threads :
        pc[t] = "returned" =>
            /\ Len(source[t].raw) = 1
            /\ source[t].raw[1] = raw_data[t]
            /\ raw_data[t].source = source[t].name
            /\ raw_data[t].source_name = call[t].name
            /\ IF hist[t].fetches = 1
               THEN raw_data[t].id = call[t].id
               ELSE raw_data[t] = hist[t].found /\ hist[t].load = "ok"

\* a call dropped a stale record and returned the record it fetched
C7_Witness ==
    \E t \in Threads :
        /\ pc[t] = "returned"
        /\ hist[t].found # None
        /\ hist[t].fetches = 1
        /\ source[t].raw = <<RawData(call[t].id, call[t].name, call[t].dp,
                                     call[t].name)>>

\* C8: a returned source has raw data of this observatory attached, so
\* the caller's check never raises.
C8_ReturnedSourceHasData ==
    /\ \A t \in Threads :
          pc[t] = "returned" =>
              /\ get_raw_data(source[t]) # None
              /\ get_raw_data(source[t]).source = call[t].name
    /\ ~collectErr

\* two threads have returned at the same time: one call loaded its
\* record, the other fetched it
C8_Witness ==
    \E t, u \in Threads :
        /\ pc[t] = "returned" /\ hist[t].fetches = 0
        /\ pc[u] = "returned" /\ hist[u].fetches = 1

\* C9: a call with save=False changes neither the file store nor the
\* database, and returns its source with the raw data attached.
C9_NoSaveNoWrite ==
    /\ [][\A t \in Threads :
             (Running(t) /\ ~call[t].save /\ Steps(t)) => UNCHANGED shared]_vars
    /\ [](\A t \in Threads :
             (pc[t] = "returned" /\ ~call[t].save) =>
                 get_raw_data(source[t]) = raw_data[t] /\ raw_data[t] # None)

\* a call with save=False has fetched and returned while the database and
\* the file store are empty
C9_Witness ==
    \E t \in Threads :
        /\ pc[t] = "returned"
        /\ ~call[t].save
        /\ hist[t].fetches = 1
        /\ get_raw_data(source[t]).id = call[t].id
        /\ dbRaw = {} /\ dbSources = {} /\ keys = {} /\ files = {}

\* the statements that read or write the file store
FileIO == {"load", "save", "cleanup"}

\* C10: at most one thread at a time performs I/O on the file store (all
\* file I/O of the threads is serialized by the lock).
C10_FileIOSerialized ==
    Cardinality({t \in Threads : pc[t] \in FileIO}) <= 1

\* the rows of the range that begins at catalog index i
RangeOf(i) == {r \in 0..(CatLen - 1) :
                 i <= r /\ r < i + download_batch /\ r < batch.stop}

\* C11: download_all_sources leaves its wait for a range only when every
\* worker of the range has completed, and when a worker starts on its row
\* every row of the earlier ranges has been run and no row of a later
\* range has; the index of the loop never goes back.
C11_BarrierAndOrder ==
    [][/\ (loop.pc = "wait" /\ loop'.pc # "wait") =>
            \A t \in Assigned : pc[t] \in {"returned", "raised"}
       /\ loop'.i >= loop.i
       /\ \A t \in Threads :
            (pc[t] = "queued" /\ pc'[t] = "check_file") =>
                /\ row[t] \in RangeOf(loop.i)
                /\ \A r \in 0..(CatLen - 1) :
                     /\ (batch.start <= r /\ r < loop.i) => started[r] = 1
                     /\ (r < batch.start \/ r >= loop.i + download_batch)
                            => started[r] = 0]_vars

\* in the second range of two rows the worker of the later row has
\* returned while the worker of the earlier row is still running
C11_Witness ==
    /\ batch.num_threads_download = 2
    /\ loop.pc = "wait"
    /\ loop.i = batch.start + 2
    /\ \E t, u \in Assigned :
         /\ row[t] < row[u]
         /\ Running(t) /\ pc[t] # "queued"
         /\ pc[u] = "returned"

C13_FailureAborts ==
    [][/\ loop.pc # "failed"
       /\ (loop.pc = "wait" /\ loop'.pc # "wait"
             /\ \E t \in Assigned : pc[t] = "raised") =>
               /\ loop'.pc = "failed"
               /\ \E t \in Assigned : pc[t] = "raised" /\ loop'.err = err[t]
               /\ UNCHANGED shared
               /\ \A t \in Threads : pc'[t] = "idle"]_vars

\* a run has failed in a later range; a row committed by an earlier range
\* is in the database and the last row was never started
C13_Witness ==
    /\ loop.pc = "failed"
    /\ loop.err \notin {"none", "RuntimeError"}
    /\ loop.i > batch.start
    /\ batch.stop = CatLen
    /\ started[CatLen - 1] = 0
    /\ \E r \in dbRaw : r.id > 0

\* C14: once a worker of a range has raised, no other worker of the range
\* commits.
C14_NoCommitAfterFailure ==
    [][\A t \in Threads :
          (pc[t] = "commit" /\ pc'[t] = "returned") =>
              \A u \in Assigned \ {t} : pc[u] # "raised"]_vars

\* C16: self.sources never holds more than download_batch_size +
\* max(num_threads_download, 1) sources, self.datasets holds the datasets
\* of the same sources, and at the start of a range the two lists are
\* emptied together when self.sources exceeds download_batch_size and
\* left alone otherwise.
C16_ListsBounded ==
    /\ [](Len(sources) <= batch.download_batch_size
                              + Max(batch.num_threads_download, 1))
    /\ [](datasets = sources)
    /\ [][(loop.pc = "range" /\ loop'.pc = "wait") =>
            IF Len(sources) > batch.download_batch_size
            THEN sources' = <<>> /\ datasets' = <<>>
            ELSE UNCHANGED <<sources, datasets>>]_vars

\* with download_batch_size 1 the lists were emptied at the start of the
\* current range after more sources than that had been loaded
C16_Witness ==
    /\ batch.download_batch_size = 1
    /\ loop.pc = "wait"
    /\ loop.num_loaded >= 2
    /\ sources = <<>>

\* C17: every run of check_and_fetch_source that a range has queued ends
\* (it returns or raises), and download_all_sources ends (it returns or
\* raises): no thread waits for the lock for ever.
C17_Terminates ==
    /\ \A t \in Threads :
          (pc[t] = "queued") ~> (pc[t] \in {"returned", "raised"})
    /\ <>(loop.pc \in {"done", "failed"})

\* a worker waits for the lock that its sibling holds
C17_Witness ==
    \E t, u \in Assigned :
        /\ lock = t
        /\ pc[u] \in {"acquire_load", "acquire_save"}

C18_VerifyIffUnassigned ==
    [][last'.name = "verify" =>
          /\ raised' = "ValueError" <=>
                \E p \in required_pars : attrs[p] = Unset
          /\ attrs' = attrs]_vars

\* C19: read and load set every key of the dictionary (of the file) to the
\* value it has there, whether the attribute was defined before or not,
\* and leave every other attribute as it was.
C19_ReadSetsEveryKey ==
    [][(last'.name \in {"read", "load"} /\ raised' = "none") =>
          \A k \in Keys :
              IF k \in KeysOf(last'.d)
              THEN /\ attrs'[k].kind = last'.d[k].kind
                   /\ attrs'[k].items = last'.d[k].items
              ELSE attrs'[k] = attrs[k]]_vars

\* a file was loaded that has p and not q: p is the object made from the
\* file, and q is still the dict an earlier call had set
C19_Witness ==
    /\ last.name = "load"
    /\ KeysOf(last.d) = {"p"}
    /\ attrs["p"].kind = "dict" /\ attrs["p"].id = 3
    /\ attrs["q"].kind = "dict" /\ attrs["q"].id = 2

\* the keys of the entries of a dict
Dom(items) == {pr[1] : pr \in items}
\* the elements of a set or a list
Elems(items) == {pr[2] : pr \in items}

\* C20: update keeps the existing object and adds the new entries to it
\* when a dict meets a dict (new values win, old entries stay) or a set
\* meets a set or a list; in every other case the attribute becomes the
\* new value; attributes that are not in the dictionary are left alone.
C20_UpdateMergesContainers ==
    [][last'.name = "update" =>
          \A k \in Keys :
              IF k \notin KeysOf(last'.d) THEN attrs'[k] = attrs[k]
              ELSE IF attrs[k].kind = "dict" /\ last'.d[k].kind = "dict"
              THEN /\ attrs'[k].kind = "dict"
                   /\ attrs'[k].id = attrs[k].id
                   /\ last'.d[k].items \subseteq attrs'[k].items
                   /\ \A pr \in attrs[k].items :
                        pr[1] \notin Dom(last'.d[k].items)
                            => pr \in attrs'[k].items
                   /\ attrs'[k].items \subseteq
                            attrs[k].items \cup last'.d[k].items
                   /\ Cardinality(Dom(attrs'[k].items))
                            = Cardinality(attrs'[k].items)
              ELSE IF attrs[k].kind = "set"
                        /\ last'.d[k].kind \in {"set", "list"}
              THEN /\ attrs'[k].kind = "set"
                   /\ attrs'[k].id = attrs[k].id
                   /\ Elems(attrs'[k].items) =
                        Elems(attrs[k].items) \cup Elems(last'.d[k].items)
              ELSE /\ attrs'[k].kind = last'.d[k].kind
                   /\ attrs'[k].items = last'.d[k].items
                   /\ attrs'[k].id # 0 => attrs'[k].id > nobj]_vars

\* a dict set by an earlier call was updated with a dict: it is the same
\* object, x has the new value, y is kept and z was added
C20_Witness ==
    /\ last.name = "update"
    /\ last.d["p"] = Dict({<<"x", "2">>, <<"z", "2">>})
    /\ attrs["p"].kind = "dict"
    /\ attrs["p"].id = 1
    /\ attrs["p"].items = {<<"x", "2">>, <<"y", "1">>, <<"z", "2">>}

\* the names of the keys of a dict
NamesOf(d) == {d[i].k : i \in 1..Len(d)}

\* no coordinate name is used in two of the three dicts
DistinctNames(p) ==
    /\ NamesOf(p.score_coords) \cap NamesOf(p.source_coords) = {}
    /\ NamesOf(p.score_coords) \cap NamesOf(p.obs_coords) = {}
    /\ NamesOf(p.source_coords) \cap NamesOf(p.obs_coords) = {}

\* the length of the coordinate axis called k
CoordLen(d, k) ==
    Len((CHOOSE e \in Range(d.coords) : e.k = k).v.values)

\* C21: initialize_data builds exactly one count array per score
\* coordinate, every cell zero, whose dimensions are all source and
\* observation coordinates followed by that score coordinate, with the
\* lengths of those axes as its shape; so all count arrays share the same
\* common axes.  (Coordinate names are distinct across the three dicts.)
C21_OneZeroArrayPerScore ==
    (data.built /\ DistinctNames(pars)) =>
        LET shared_names ==
                [i \in 1..Len(pars.source_coords) |-> pars.source_coords[i].k]
                    \o [i \in 1..Len(pars.obs_coords) |-> pars.obs_coords[i].k]
        IN /\ Len(data.data_vars) = Len(pars.score_coords)
           /\ \A i \in 1..Len(pars.score_coords) :
                LET k == pars.score_coords[i].k
                    a == data.data_vars[i]
                IN /\ a.name = <<k, "_counts">>
                   /\ a.dims = shared_names \o <<k>>
                   /\ a.array.shape =
                        [j \in 1..Len(a.dims) |-> CoordLen(data, a.dims[j])]
                   /\ Len(a.array.cells) = Prod(a.array.shape)
                   /\ \A c \in 1..Len(a.array.cells) : a.array.cells[c] = 0

\* two count arrays over a source axis and an observation axis, with cells
C21_Witness ==
    /\ data.built /\ DistinctNames(pars)
    /\ Len(data.data_vars) = 2
    /\ Len(data.data_vars[1].dims) = 3
    /\ Len(data.data_vars[1].array.cells) > 2
    /\ Len(data.data_vars[2].array.cells) > 2

\* the (start, stop, step) of the fixed score axis called k, as a set of
\* at most one element
FixedAxisOf(k) ==
    {e.v.items : e \in {x \in Range(pars.score_coords) :
                          /\ x.k = k
                          /\ x.v.tuple /\ Len(x.v.items) = 3
                          /\ x.v.items[1] <= x.v.items[2]}}

\* the counts of score coordinate k
CountsOf(d, k) ==
    {a.array.cells : a \in {x \in Range(d.data_vars) : x.name = <<k, "_counts">>}}

\* C22: for every valid fixed-axis specification (start, stop, step), a
\* value exactly at start and a value exactly at stop land in a bin (a
\* count is incremented), and adding a value below start or above stop
\* fails with ValueError and leaves all counts unchanged.
C22_FixedAxisBounds ==
    (hlast.name = "add_data" /\ data.built /\ DistinctNames(pars)) =>
        \A sp \in FixedAxisOf(hlast.args.score) :
            LET v == hlast.args.value
            IN /\ v \in {sp[1], sp[2]} =>
                    /\ hraised = "none"
                    /\ \E cells \in CountsOf(data, hlast.args.score) :
                         \E c \in 1..Len(cells) : cells[c] > 0
               /\ (v < sp[1] \/ v > sp[2]) =>
                    /\ hraised = "ValueError"
                    /\ \A cells \in CountsOf(data, hlast.args.score) :
                         \A c \in 1..Len(cells) : cells[c] = 0

RECURSIVE Pow(_, _)
Pow(b, n) == IF n = 0 THEN 1 ELSE b * Pow(b, n - 1)

\* the axes of a dataset that are score axes, and the others
ScoreAxes(d) == {i \in 1..Len(d.coords) : d.coords[i].v.input = "score"}
CommonAxes(d) == {i \in 1..Len(d.coords) : d.coords[i].v.input # "score"}
AxisLen(d, i) == Len(d.coords[i].v.values)

RECURSIVE SumOver(_, _)
SumOver(d, S) ==
    IF S = {} THEN 0
    ELSE LET i == CHOOSE x \in S : TRUE
         IN AxisLen(d, i) + SumOver(d, S \ {i})

RECURSIVE ProdOver(_, _)
ProdOver(d, S) ==
    IF S = {} THEN 1
    ELSE LET i == CHOOSE x \in S : TRUE
         IN AxisLen(d, i) * ProdOver(d, S \ {i})

\* the last call was get_size_estimate("bytes", 3, 100) and it returned
EstimatedInBytes ==
    /\ hlast.name = "get_size_estimate"
    /\ hlast.args.units = "bytes"
    /\ hlast.args.dyn_coord_size = 3
    /\ hlast.args.dyn_score_size = 100
    /\ hraised = "none"

\* C23 as stated: with all dynamic axes unfilled, get_size_estimate in
\* bytes with dyn_coord_size=3 and dyn_score_size=100 equals
\* 3^(number of dynamic coordinate axes) * (sum of the lengths of the
\* filled score axes + 100 * number of dynamic score axes) * itemsize.
C23_EstimateAsStated ==
    EstimatedInBytes =>
        LET dyn(S) == {i \in S : data.coords[i].v.type = "dynamic"}
        IN /\ result.per = 1
           /\ result.total_size =
                Pow(3, Cardinality(dyn(CommonAxes(data))))
                  * (SumOver(data, ScoreAxes(data) \ dyn(ScoreAxes(data)))
                       + 100 * Cardinality(dyn(ScoreAxes(data))))
                  * itemsize(pars.dtype)

\* C23, amended: the estimate in bytes equals 3^(number of source and
\* observation axes with at most one value) * (product of the lengths of
\* the other source and observation axes) * (sum of the lengths of the
\* score axes with more than one value + 100 * number of score axes with
\* at most one value) * itemsize.
C23_EstimateWithFixedAxes ==
    EstimatedInBytes =>
        LET short(S) == {i \in S : AxisLen(data, i) <= 1}
        IN /\ result.per = 1
           /\ result.total_size =
                Pow(3, Cardinality(short(CommonAxes(data))))
                  * ProdOver(data, CommonAxes(data) \ short(CommonAxes(data)))
                  * (SumOver(data, ScoreAxes(data) \ short(ScoreAxes(data)))
                       + 100 * Cardinality(short(ScoreAxes(data))))
                  * itemsize(pars.dtype)

\* an estimate over a fixed source axis with several values, a dynamic
\* observation axis, a fixed score axis and a dynamic score axis
C23_Witness ==
    /\ EstimatedInBytes
    /\ \E i \in CommonAxes(data) :
         data.coords[i].v.type = "fixed" /\ AxisLen(data, i) > 1
    /\ \E i \in CommonAxes(data) : data.coords[i].v.type = "dynamic"
    /\ \E i \in ScoreAxes(data) :
         data.coords[i].v.type = "fixed" /\ AxisLen(data, i) > 1
    /\ \E i \in ScoreAxes(data) : data.coords[i].v.type = "dynamic"

\* C24: the + operator merges two histograms: it adds the counts
\* elementwise over the union of the bins, so H + H is H with every count
\* multiplied by 2.
C24_MergeDoubles ==
    (hlast.name = "add" /\ data.built) =>
        /\ hraised = "none"
        /\ result.data.built
        /\ result.data.coords = data.coords
        /\ Len(result.data.data_vars) = Len(data.data_vars)
        /\ \A i \in 1..Len(data.data_vars) :
             result.data.data_vars[i].array.cells =
                [c \in 1..Len(data.data_vars[i].array.cells) |->
                    2 * data.data_vars[i].array.cells[c]]

\* C25: reduce returns the datasets of one reduction call sorted by start
\* time, with reduction_number = 1..N in that order and reduction_total = N
\* on every one, each associated with the given source.
C25_SortedAndNumbered ==
    (rlast.name = "reduce" /\ rraised = "none") =>
        /\ \A i \in 1..Len(new_datasets) :
             /\ new_datasets[i].reduction_number = i
             /\ new_datasets[i].reduction_total = Len(new_datasets)
             /\ rlast.args.source.class = "Source" =>
                    new_datasets[i].source = rlast.args.source.name
        /\ \A i \in 1..Len(new_datasets), j \in 1..Len(new_datasets) :
             i < j => new_datasets[i].time_start <= new_datasets[j].time_start

\* reduce of a source returned two lightcurves, and the one that starts
\* first is of the filter that comes second in the raw table
C25_Witness ==
    /\ rlast.name = "reduce" /\ rraised = "none"
    /\ rlast.args.source.class = "Source"
    /\ Len(new_datasets) = 2
    /\ new_datasets[1].time_start < new_datasets[2].time_start
    /\ dataset.data[1].filter = new_datasets[2].filter

\* the last call was reduce_photometry on a table, and it returned
Reduced ==
    /\ rlast.name = "reduce_photometry"
    /\ rraised = "none"

\* the mag_range and drop_bad of the last call
MagRange == rlast.args.kwargs.mag_range[1]
DropBad == rlast.args.kwargs.drop_bad[1]

\* C26: when a source with a known magnitude and a mag_range are given,
\* the raw dataset is dropped exactly when its median magnitude falls
\* outside the closed interval [source.mag - mag_range, source.mag +
\* mag_range]; a median exactly on either bound is kept.
C26_ClosedMagRange ==
    (/\ Reduced
     /\ rlast.args.source.class = "Source"
     /\ rlast.args.source.mag # NoMag
     /\ MagRange \notin {NoRange, 0}
     /\ dataset.data # <<>>) =>
        (new_datasets = <<>>
           <=> ~within_closed(median2(dataset.data),
                              rlast.args.source.mag - MagRange,
                              rlast.args.source.mag + MagRange))

\* the rows of the raw table that belong to the lightcurve of filter f
Expected(f) ==
    {i \in 1..Len(dataset.data) :
        /\ dataset.data[i].filter = f
        /\ (DropBad /\ dataset.has_flag) => dataset.data[i].flag = 0}

\* the values of a row
ValuesOf(r) == <<r.mjd, r.mag, r.filter, r.flag>>

\* lightcurve lc holds exactly the rows of filter f, sorted by time and
\* labelled 0, 1, ...
Matches(lc, f) ==
    /\ lc.number = Cardinality(Expected(f))
    /\ Len(lc.data) = Cardinality(Expected(f))
    /\ \A r \in RowVals(TRUE) :
         Cardinality({j \in 1..Len(lc.data) : ValuesOf(lc.data[j]) = ValuesOf(r)})
           = Cardinality({i \in Expected(f) : ValuesOf(dataset.data[i]) = ValuesOf(r)})
    /\ \A j \in 1..Len(lc.data) : lc.data[j].idx = j - 1
    /\ \A j \in 1..Len(lc.data), k \in 1..Len(lc.data) :
         j < k => lc.data[j].mjd <= lc.data[k].mjd

NoneSurvives ==
    \/ out_of_range(dataset, rlast.args.source, MagRange)
    \/ /\ DropBad /\ dataset.has_flag
       /\ \A i \in 1..Len(dataset.data) : dataset.data[i].flag # 0

\* C28: when no rows survive the filtering of a reduction (the mag_range
\* cut or drop_bad removing every row), the reduction returns an empty
\* list and raises no error.
C28_NoRowsNoLightcurves ==
    (rlast.name = "reduce_photometry" /\ dataset.class = "RawPhotometry"
        /\ dataset.tabular /\ NoneSurvives) =>
        /\ rraised = "none"
        /\ new_datasets = <<>>

\* the (data type, output type) pair of the last call of reduce
PairOf(args) ==
    LET dt == IF args.source.class = "Source"
              THEN convert_data_type(args.data_type)
              ELSE args.source.type
    IN <<dt, IF args.output_type = "None" THEN dt
             ELSE convert_data_type(args.output_type)>>

\* reduce was given a source with raw data of the type, or a dataset
HasRawData(args) ==
    \/ args.source.class \in {"RawPhotometry", "RawImages"}
    \/ /\ args.source.class = "Source"
       /\ args.source.raw.type = convert_data_type(args.data_type)

C30_WriteAndCommitUnderLock ==
    \A t \in Threads : pc[t] \in {"save", "commit"} => lock = t

\* C30, amended: the write of the new payloads is performed while the
\* calling thread holds the shared lock, and no other thread loads or
\* saves a file during it; the lock is released before the database
\* commit, which the thread performs without holding it.
C30_WriteUnderLockOnly ==
    \A t \in Threads :
        /\ pc[t] = "save" =>
              /\ lock = t
              /\ \A u \in Threads \ {t} : pc[u] \notin {"load", "save"}
        /\ pc[t] = "commit" => lock # t

\* a thread has written its payload and not yet committed while another
\* thread holds the lock and writes its own
C30_Witness ==
    \E t \in Threads, u \in Threads :
        /\ t # u
        /\ pc[t] = "commit" /\ hist[t].wrote
        /\ pc[u] = "save" /\ lock = u /\ new_data[u] # <<>>

\* C31: when the persist step of a call fails, the handler removes from
\* the file store only tables of datasets the call made and wrote itself: a
\* call that loaded its record and did not fetch removes nothing, the
\* tables and files of every other record stay, the database is as it was
\* before the call (the transaction is rolled back) and the call raises
\* the exception that made the step fail.
C31_OnlyNewFilesDeleted ==
    [][\A t \in Threads :
          (pc[t] = "cleanup" /\ Steps(t)) =>
              /\ pc'[t] = "raised"
              /\ err'[t] = err[t] /\ err[t] \in {"SaveError", "CommitError"}
              /\ UNCHANGED <<dbSources, dbRaw>>
              /\ pending[t] = {}
              /\ keys' \subseteq keys /\ files' \subseteq files
              /\ (keys \ keys') \subseteq
                    {r.source_name : r \in
                        {x \in Range(new_data[t]) : x.id = call[t].id}}
              /\ keys' # keys => hist[t].wrote
              /\ hist[t].fetches = 0 => UNCHANGED <<files, keys>>
              /\ \A f \in files \ files' : \A k \in keys' : FileOf(k) # f]_vars

\* the commit of a call that fetched and wrote its table has failed and
\* the call has raised: its table is gone, and the table of the other
\* source, saved by an earlier run into the same file, is still there
C31_Witness ==
    \E t \in Threads :
        /\ pc[t] = "raised"
        /\ err[t] = "CommitError"
        /\ hist[t].wrote
        /\ call[t].name \notin keys
        /\ \E r \in dbRaw :
             /\ r.source_name # call[t].name
             /\ r.source_name \in keys
             /\ FileOf(r.source_name) = FileOf(call[t].name)
             /\ check_file_exists(r, files)

\* the call of thread t drops its record as stale in this step
Drops(t) == raw_data[t] # None /\ pending'[t] = pending[t] \cup {raw_data[t]}
                /\ pending'[t] # pending[t]

\* the call of thread t commits in this step
Commits(t) == pc[t] = "commit" /\ pc'[t] = "returned"

C33_FetchedRecordIsReused ==
    \A t \in Threads :
        /\ \A r \in Range(new_data[t]) :
              /\ r.id = call[t].id
              /\ r.dp = call[t].dp /\ r.dp # 0
              /\ ~StalePars(r, TRUE, call[t])
        /\ (/\ hist[t].found.id > 0
            /\ hist[t].found.id = call[t].id - 1
            /\ hist[t].found.dp = call[t].dp) =>
              /\ hist[t].fetches = 0
              /\ hist[t].load \in {"none", "ok", "error"}
              /\ pc[t] = "returned" =>
                    raw_data[t] = hist[t].found /\ new_data[t] = <<>>

\* with check_download_pars set, a call has found the record that an
\* earlier call fetched and committed with the same download parameters,
\* and has returned it without a fetch
C33_Witness ==
    \E t \in Threads :
        /\ pc[t] = "returned"
        /\ check_download_pars
        /\ hist[t].found.id > 0
        /\ hist[t].found.id = call[t].id - 1
        /\ hist[t].found.dp = call[t].dp
        /\ hist[t].load = "ok"
        /\ hist[t].fetches = 0
        /\ raw_data[t] \in dbRaw

\* what a step appends to self.sources
Appended == SubSeq(sources', Len(sources) + 1, Len(sources'))

\* C34: apart from being emptied at the start of a run or of a range,
\* self.sources and self.datasets change only in the step that ends
\* the wait for a range, when every worker of the range has returned; what
\* is appended then is one source per catalog row of the range, each row
\* once, in any order; while a range is being waited for, none of its rows
\* is in the lists.
C34_NoPartialResults ==
    /\ [](loop.pc = "wait" =>
             \A t \in Assigned : row[t] \notin Range(sources)
                                  /\ row[t] \notin Range(datasets))
    /\ [][(sources' # sources \/ datasets' # datasets) =>
            \/ loop.pc \in {"start", "range"} /\ sources' = <<>>
                 /\ datasets' = <<>>
            \/ /\ loop.pc = "wait"
               /\ \A t \in Assigned : pc[t] = "returned"
               /\ Len(sources') = Len(sources) + Cardinality(RangeOf(loop.i))
               /\ SubSeq(sources', 1, Len(sources)) = sources
               /\ Range(Appended) = RangeOf(loop.i)
               /\ Range(Appended) = {row[t] : t \in Assigned}
               /\ datasets' = datasets \o Appended]_vars

\* the two sources of a range of two rows were appended in the order in
\* which the futures came out of the set `done`: the later row first
C34_Witness ==
    /\ batch.num_threads_download = 2
    /\ loop.pc = "range"
    /\ Len(sources) = 2
    /\ sources[1] = sources[2] + 1
    /\ datasets = sources

\* C35: a thread holds the lock only while it is at raw_data.load() or at
\* data.save(), and it is there only with the lock; the lock is taken only
\* when it is free, and given up only by its holder, in the step that
\* leaves the load or the save, whatever the outcome of that step: no call
\* returns or raises with the lock.
C35_LockAlwaysReleased ==
    /\ [](\A t \in Threads : (lock = t) = (pc[t] \in {"load", "save"}))
    /\ [](lock \in Threads \cup {NoThread})
    /\ [][\A t \in Threads :
            /\ (lock # t /\ lock' = t) =>
                  lock = NoThread /\ pc[t] \in {"acquire_load", "acquire_save"}
            /\ (lock = t /\ lock' # t) => lock' = NoThread /\ Steps(t)
            /\ (pc[t] \in {"load", "save"} /\ Steps(t)) =>
                  lock = t /\ lock' = NoThread]_vars

\* one thread's load has failed with an error that is not the missing
\* key and its call has raised; the other thread has taken the lock since
C35_Witness ==
    \E t, u \in Threads :
        /\ pc[t] = "raised"
        /\ err[t] = "LoadError"
        /\ lock = u
        /\ pc[u] = "save"

\* C36: download_all_sources never asks the catalog for a row whose index
\* is len(catalog) or more, whatever start, stop and num_threads_download
\* are.
C36_RowsWithinCatalog == loop.asked < CatLen

\* C37: with save=True the persist step computes the RA fields and goes on
\* to the file write for every setting of save_ra_minutes and
\* save_ra_seconds: a call that has its record and is to save it reaches
\* lock.acquire() of the save, and no call raises out of the computation
\* of the RA fields.
C37_EveryFlagSettingSaves ==
    /\ [](\A t \in Threads : err[t] # "TypeError")
    /\ [][\A t \in Threads :
            (/\ pc[t] \in {"load", "fetch"}
             /\ call[t].save
             /\ Steps(t)
             /\ pc'[t] # "fetch"
             /\ err'[t] \notin {"LoadError", "FetchError"}) =>
                 pc'[t] = "acquire_save"]_vars

\* the catalog rows a run has processed
Processed == {r \in 0..(CatLen - 1) : started[r] >= 1}

\* C38: the first step of download_all_sources empties self.sources and
\* self.datasets, whatever the call before has left in them, and sets
\* num_loaded to 0; between the ranges and at the return num_loaded is the
\* number of catalog rows processed so far, however often the lists were
\* emptied on the way: at the return it is the number of rows of
\* [start, stop) that the catalog has.
C38_NumLoadedCountsRows ==
    /\ [][loop.pc = "start" =>
            /\ loop'.pc = "range"
            /\ sources' = <<>> /\ datasets' = <<>>
            /\ loop'.num_loaded = 0]_vars
    /\ [](loop.pc \in {"range", "done"} =>
            /\ loop.num_loaded = Cardinality(Processed)
            /\ Range(sources) \subseteq Processed
            /\ Len(sources) <= loop.num_loaded)
    /\ [](loop.pc = "done" =>
            loop.num_loaded =
                Max(0, Min(batch.stop, CatLen) - Min(batch.start, CatLen)))

\* a run over the whole catalog has returned num_loaded = len(catalog)
\* with one source left in self.sources, the lists having been emptied
\* before every range but the first
C38_Witness ==
    /\ loop.pc = "done"
    /\ batch.download_batch_size = 0
    /\ loop.num_loaded = CatLen
    /\ sources = <<CatLen - 1>>

\* the reduced collections of the source before the call and after it
Before == rlast.args.source.reduced
After == rsource.reduced

\* C39: a call of reduce on a Source that returns leaves, in the source's
\* collection of the output type, the datasets that were there, unchanged
\* and in their order, followed by the datasets it returns; the collection
\* of the other type is as it was; a call that raises changes neither.
C39_ReduceAppends ==
    (rlast.name = "reduce" /\ rlast.args.source.class = "Source") =>
        IF rraised # "none"
        THEN After = Before /\ new_datasets = <<>>
        ELSE \E ot \in DOMAIN Before :
                /\ After[ot] = Before[ot] \o new_datasets
                /\ \A i \in 1..Len(Before[ot]) :
                      /\ After[ot][i].reduction_number
                            = Before[ot][i].reduction_number
                      /\ After[ot][i].reduction_total
                            = Before[ot][i].reduction_total
                /\ \A ty \in DOMAIN Before \ {ot} : After[ty] = Before[ty]

\* a source that held two lightcurves, numbered 1 and 2 of 2, now holds
\* four: the call has appended two more, numbered 1 and 2 of 2 again
C39_Witness ==
    /\ rlast.name = "reduce"
    /\ rraised = "none"
    /\ rlast.args.source.class = "Source"
    /\ Before["photometry"] = Earlier
    /\ Len(new_datasets) = 2
    /\ Len(After["photometry"]) = 4
    /\ [i \in 1..4 |-> After["photometry"][i].reduction_number] = <<1, 2, 1, 2>>
    /\ After["photometry"][3].raw_data_id # After["photometry"][1].raw_data_id

\* C40: a call of commit_source adds a Source to the database only when
\* the data has rows and the identifier is not in source_ids, and then the
\* identifier is in source_ids; a call with no data or with a known
\* identifier, and a call that raises, leaves the database and source_ids
\* as they were.  So the database never holds two Sources of one
\* identifier.
C40_OneSourcePerIdentifier ==
    /\ [](\A c \in CatIds : /\ committed[c] <= 1
                            /\ (c \in source_ids) = (committed[c] = 1))
    /\ [][ncommits' # ncommits =>
            LET c == clast'.cat_id
                adds == committed' # committed
            IN /\ adds =>
                    /\ clast'.len > 0 /\ c \notin source_ids
                    /\ clast'.raised = "none"
                    /\ committed' = [committed EXCEPT ![c] = @ + 1]
                    /\ source_ids' = source_ids \cup {c}
               /\ ~adds => UNCHANGED source_ids
               /\ (clast'.len <= 0 \/ c \in source_ids) =>
                    /\ UNCHANGED <<committed, source_ids>>
                    /\ clast'.raised = "none"
               /\ clast'.raised # "none" => UNCHANGED <<committed, source_ids>>]_vars

\* the files hold data of the same identifier twice: the first call has
\* committed its Source, the next one has found the identifier in
\* source_ids and returned
C40_Witness ==
    /\ ncommits >= 2
    /\ clast.raised = "none"
    /\ clast.len > 0
    /\ clast.cat_id \in source_ids
    /\ committed[clast.cat_id] = 1
    /\ source_ids # {}
    /\ \E c \in CatIds : c \notin source_ids /\ c < CatLen

=============================================================================
